---- MODULE Spec2Model ----
\* TUMfoolery: the market reconciliation and streaming-aggregation logic of the
\* dashboard (Home page state, Kalshi stream handlers, SSE relay routes,
\* real-time view, compare page and comparison card).
\*
\* Probabilities are held as integers in hundredths (42 stands for 0.42), so
\* |p - q| and the 0.1 threshold (10) are exact.
EXTENDS Integers, Sequences, FiniteSets, TLC

VARIABLES
    \* ---- Home page (part_005) ----
    activePage,          \* useState("dashboard")
    kalshiMarkets,       \* useState<KalshiMarket[]>([])
    manifoldMarkets,     \* useState<ManifoldMarket[]>([])
    mockMatches,         \* imported constant list of TUMfoolery matches
    rendered,            \* the page body has been rendered for the current state
    kalshiGroups,        \* renderColumn: groupedMarkets, in Map insertion order
    filteredGroups,      \* renderColumn: filteredGroups, the groups displayed
    compareData,         \* compare page: Array.from(matchMap.values()) with keys
    cards,               \* CompareMarketCard: one entry per compareData record
    \* ---- percentage formatting (RealtimeKalshiUpdates, KalshiMarketRow) ----
    fmtCents,            \* the price under test, in cents (0..100)
    fmtOut,              \* <<>> before formatting, else the rendered percentages
    \* ---- SSE relay routes (part_008 /api/kalshi/stream, part_009 markets-stream) ----
    route,               \* which route handles the request
    sse,                 \* isClosed, the controller (open, enqueued), close() calls
    buffer,              \* let buffer = '': the incomplete stdout line
    procOut,             \* stdout bytes written by the subprocess, not yet delivered
    written,             \* every stdout byte the subprocess wrote (history)
    proc,                \* the subprocess: alive, exit / error events fired, killed
    stderrSeen,          \* the stderr 'data' event has been delivered (one per run)
    splitLines,          \* lines completed by a later chunk than they began in (history)
    \* ---- Home page: Kalshi scraping sessions (part_005) ----
    mounted,             \* the mount effects have run
    lsKalshi,            \* localStorage: kalshiMarkets and whether its timestamp is < 5 min old
    kalshiLoading,       \* useState(false)
    kalshiError,         \* useState<string | null>(null): an error is shown
    kalshiStreaming,     \* useState(false)
    kalshiScrapingDate,  \* useState(false)
    kalshiRefreshKey,    \* useState(0)
    eventSourceRef,      \* useRef<EventSource | null>: 0 is null, else the session whose EventSource it is
    scrapingStartedRef,  \* useRef<boolean>(false)
    sessions,            \* one record per run of the Kalshi effect that started scraping
    cleanupOf,           \* the session whose effect cleanup is pending (0: none)
    dashFetch,           \* dashboard preview fetches in flight
    \* ---- real-time view (RealtimeKalshiUpdates.tsx) ----
    rtMounted,           \* the component is mounted
    updates,             \* useState<MarketUpdateWithId[]>([]), newest first
    connectionStatus,    \* useState('connecting')
    errorMessage,        \* useState<string | null>(null): "" is null
    priceHistoryRef,     \* useRef(new Map<string, number>()): ticker -> optional price
    eventSource,         \* the effect's EventSource: none, connecting, open, closed
    received,            \* the market updates received since the mount, newest first
    \* ---- Home page: Manifold column and the Retry buttons (part_005) ----
    manifoldLoading,     \* useState(false)
    manifoldError,       \* useState<string | null>(null): an error is shown
    lsManifold,          \* localStorage: manifoldMarkets and the age of its timestamp
    manifoldFetch,       \* Manifold fetches of the effect or of Retry in flight
    manifoldPreview,     \* dashboard preview fetches of Manifold in flight
    kalshiRetry,         \* Kalshi Retry fetches in flight
    staleIds,            \* ids Kalshi last reported longer ago than the 5 minute window
    dataAge,             \* per source: how long ago its list was last obtained from it
    \* ---- team logos (lib/team-logos) ----
    logoName,            \* getTeamLogo: the teamName argument, as characters
    logoOut,             \* getTeamLogo: the value returned, <<>> before the call
    \* ---- API routes: wallet, bets/place (part_006, part_010) ----
    wallet,              \* User.walletAddress of each user
    bets,                \* the Bet table, in order of creation
    placeRequests,       \* POST bets/place requests: caller, body, user.walletAddress read, response
    \* ---- API route: chat (part_010) ----
    chatMessages,        \* ChatMessage rows of one (user, marketKey), in order of insertion
    saves,               \* POST chat requests: the messages of the body, the next statement
    lastSaved            \* the messages of the request that responded last

renderVars == <<activePage, kalshiMarkets, manifoldMarkets, mockMatches,
                rendered, kalshiGroups, filteredGroups, compareData, cards>>

fmtVars == <<fmtCents, fmtOut>>

relayVars == <<route, sse, buffer, procOut, written, proc, stderrSeen, splitLines>>

homeVars == <<mounted, lsKalshi, kalshiLoading, kalshiError, kalshiStreaming,
              kalshiScrapingDate, kalshiRefreshKey, eventSourceRef,
              scrapingStartedRef, sessions, cleanupOf, dashFetch>>

rtVars == <<rtMounted, updates, connectionStatus, errorMessage, priceHistoryRef,
            eventSource, received>>

srcVars == <<manifoldLoading, manifoldError, lsManifold, manifoldFetch,
             manifoldPreview, kalshiRetry, staleIds, dataAge>>

libVars == <<logoName, logoOut>>

apiVars == <<wallet, bets, placeRequests, chatMessages, saves, lastSaved>>

vars == <<renderVars, fmtVars, relayVars, homeVars, rtVars, srcVars, libVars, apiVars>>

\* ------------------------------------------------------------------
\* JavaScript helpers
\* ------------------------------------------------------------------

\* a || b on strings: undefined and "" are both falsy (modelled as "").
OrStr(a, b) == IF a # "" THEN a ELSE b

\* An optional number (kalshiProb?: number): <<>> is undefined, <<p>> is p.
None == <<>>
Some(p) == <<p>>
IsDefined(o) == o # <<>>
Val(o) == o[1]

Abs(x) == IF x < 0 THEN -x ELSE x
Max2(a, b) == IF a >= b THEN a ELSE b
Max3(a, b, c) == Max2(a, Max2(b, c))
SetMax(S) == CHOOSE x \in S : \A y \in S : y <= x

\* ------------------------------------------------------------------
\* Data shapes
\* ------------------------------------------------------------------

\* KalshiMarket with its KalshiTickerInfo.
KM(id, ticker, price, c1, c2, f1, f2, d, prop) ==
    [market_id |-> id, ticker |-> ticker, yes_price |-> price,
     ticker_info |-> [team1 |-> c1, team2 |-> c2, team1_full |-> f1,
                      team2_full |-> f2, date |-> d, prop |-> prop,
                      prop_full |-> "", bet_description |-> ""]]

\* A market with its prop_full and bet_description texts ("" is undefined).
WithText(m, prop_full, bet_description) ==
    [m EXCEPT !.ticker_info.prop_full = prop_full,
              !.ticker_info.bet_description = bet_description]

\* ManifoldMarket.
MM(t1, t2, p) == [team1 |-> t1, team2 |-> t2, probability |-> p]

\* MatchPrediction (teamA.name, teamB.name, tumfoolery.prediction).
MP(a, b, p) == [teamA |-> a, teamB |-> b, prediction |-> p]

\* m.market_id || m.ticker
MarketId(m) == OrStr(m.market_id, m.ticker)

\* ------------------------------------------------------------------
\* Kalshi column: grouping key (renderColumn)
\* ------------------------------------------------------------------

\* `${date}-${team1}-${team2}` over the ticker codes, in the order given.
KalshiMatchKey(m) ==
    OrStr(m.ticker_info.date, "") \o "-" \o OrStr(m.ticker_info.team1, "")
        \o "-" \o OrStr(m.ticker_info.team2, "")

RECURSIVE IndexOfKey(_, _, _)
\* Position of key k in a sequence of records with a key field, 0 when absent.
IndexOfKey(s, k, i) ==
    IF i > Len(s) THEN 0
    ELSE IF s[i].key = k THEN i
    ELSE IndexOfKey(s, k, i + 1)

RECURSIVE GroupMarkets(_, _, _, _)
\* kalshiMarkets.forEach: skip a market id already seen, else push the market
\* to the group of its matchKey (a Map, kept in insertion order).
GroupMarkets(ms, i, seen, groups) ==
    IF i > Len(ms) THEN groups
    ELSE LET m == ms[i]
             id == MarketId(m)
             k == KalshiMatchKey(m)
             at == IndexOfKey(groups, k, 1)
         IN  IF id \in seen THEN GroupMarkets(ms, i + 1, seen, groups)
             ELSE IF at = 0
                  THEN GroupMarkets(ms, i + 1, seen \cup {id},
                           Append(groups, [key |-> k, markets |-> <<m>>]))
                  ELSE GroupMarkets(ms, i + 1, seen \cup {id},
                           [groups EXCEPT ![at].markets = Append(@, m)])

\* The texts a prop_full or bet_description can carry before and after the
\* words looked for.
Affixes == {"", "Arsenal", "Chelsea"}

\* text?.includes(word): false when text is undefined.
TextIncludes(text, word) ==
    /\ text # ""
    /\ \E pre, post \in Affixes : text = pre \o word \o post

\* The predicate of markets.find for team1Win and team2Win.
IsTeamWin(m, code, name) ==
    \/ OrStr(m.ticker_info.prop, "") = code
    \/ TextIncludes(m.ticker_info.prop_full, name \o " Wins")
    \/ TextIncludes(m.ticker_info.bet_description, name \o " Wins")

\* The predicate of markets.find for tie.
IsTie(m) ==
    \/ OrStr(m.ticker_info.prop, "") \in {"TIE", "DRAW"}
    \/ m.ticker_info.prop_full = "Tie/Draw"
    \/ TextIncludes(m.ticker_info.bet_description, "Tie/Draw")

\* markets.find(pred) for the three predicates: the first match, as a
\* sequence of at most one market.
FindTeamWin(ms, code, name) ==
    LET hits == { i \in DOMAIN ms : IsTeamWin(ms[i], code, name) } IN
    IF hits = {} THEN <<>>
    ELSE <<ms[CHOOSE i \in hits : \A j \in hits : i <= j]>>

FindTie(ms) ==
    LET hits == { i \in DOMAIN ms : IsTie(ms[i]) } IN
    IF hits = {} THEN <<>>
    ELSE <<ms[CHOOSE i \in hits : \A j \in hits : i <= j]>>

\* [team1Win, team2Win, tie].filter(Boolean) of one group.
MainMarkets(ms) ==
    LET info == ms[1].ticker_info
        team1Code == OrStr(info.team1, "")
        team2Code == OrStr(info.team2, "")
        team1Name == OrStr(info.team1_full, team1Code)
        team2Name == OrStr(info.team2_full, team2Code)
    IN  FindTeamWin(ms, team1Code, team1Name)
            \o FindTeamWin(ms, team2Code, team2Name) \o FindTie(ms)

RECURSIVE FilterGroups(_, _, _)
\* groupedMarkets.forEach: a group with a main market is kept, with its main
\* markets only.
FilterGroups(groups, i, acc) ==
    IF i > Len(groups) THEN acc
    ELSE LET main == MainMarkets(groups[i].markets) IN
         IF Len(main) > 0
         THEN FilterGroups(groups, i + 1,
                  Append(acc, [key |-> groups[i].key, markets |-> main]))
         ELSE FilterGroups(groups, i + 1, acc)

\* The dashboard's isMainMarket, for a market with a matchKey and both codes.
IsMainMarket(m) ==
    LET info == m.ticker_info
        team1 == OrStr(info.team1, "")
        team2 == OrStr(info.team2, "")
        prop == OrStr(info.prop, "")
        team1Name == OrStr(info.team1_full, team1)
        team2Name == OrStr(info.team2_full, team2)
    IN  /\ team1 # ""
        /\ team2 # ""
        /\ \/ prop = team1
           \/ prop = team2
           \/ prop \in {"TIE", "DRAW"}
           \/ TextIncludes(info.prop_full, team1Name \o " Wins")
           \/ TextIncludes(info.prop_full, team2Name \o " Wins")
           \/ TextIncludes(info.bet_description, "Tie/Draw")

\* ------------------------------------------------------------------
\* Compare page: matchMap
\* ------------------------------------------------------------------

\* `${team1}-${team2}`, in the order given.
CompareKey(t1, t2) == t1 \o "-" \o t2

KalshiTeam1(m) == OrStr(m.ticker_info.team1_full, OrStr(m.ticker_info.team1, ""))
KalshiTeam2(m) == OrStr(m.ticker_info.team2_full, OrStr(m.ticker_info.team2, ""))

RECURSIVE AddTumfoolery(_, _, _)
\* mockMatches.forEach: matchMap.set(key, {... tumfooleryProb: prediction}).
AddTumfoolery(ms, i, map) ==
    IF i > Len(ms) THEN map
    ELSE LET k == CompareKey(ms[i].teamA, ms[i].teamB)
             rec == [key |-> k, team1 |-> ms[i].teamA, team2 |-> ms[i].teamB,
                     tumfooleryProb |-> ms[i].prediction,
                     kalshiProb |-> None, manifoldProb |-> None,
                     fromMock |-> TRUE]
             at == IndexOfKey(map, k, 1)
         IN  IF at = 0 THEN AddTumfoolery(ms, i + 1, Append(map, rec))
             ELSE AddTumfoolery(ms, i + 1, [map EXCEPT ![at] = rec])

\* The probability a compare record gets when no TUMfoolery match has its key
\* ("Default if no TUMfoolery data"): 0.5.
DefaultTumfooleryProb == 50

RECURSIVE AddKalshi(_, _, _)
\* kalshiMarkets.forEach: set kalshiProb on the existing record, or add one
\* with the default tumfooleryProb when both team names are non-empty.
AddKalshi(ms, i, map) ==
    IF i > Len(ms) THEN map
    ELSE LET t1 == KalshiTeam1(ms[i])
             t2 == KalshiTeam2(ms[i])
             k == CompareKey(t1, t2)
             at == IndexOfKey(map, k, 1)
         IN  IF at # 0
             THEN AddKalshi(ms, i + 1,
                      [map EXCEPT ![at].kalshiProb = Some(ms[i].yes_price)])
             ELSE IF t1 # "" /\ t2 # ""
             THEN AddKalshi(ms, i + 1, Append(map,
                      [key |-> k, team1 |-> t1, team2 |-> t2,
                       tumfooleryProb |-> DefaultTumfooleryProb,
                       kalshiProb |-> Some(ms[i].yes_price),
                       manifoldProb |-> None, fromMock |-> FALSE]))
             ELSE AddKalshi(ms, i + 1, map)

RECURSIVE AddManifold(_, _, _)
\* manifoldMarkets.forEach: likewise for manifoldProb.
AddManifold(ms, i, map) ==
    IF i > Len(ms) THEN map
    ELSE LET k == CompareKey(ms[i].team1, ms[i].team2)
             at == IndexOfKey(map, k, 1)
         IN  IF at # 0
             THEN AddManifold(ms, i + 1,
                      [map EXCEPT ![at].manifoldProb = Some(ms[i].probability)])
             ELSE IF ms[i].team1 # "" /\ ms[i].team2 # ""
             THEN AddManifold(ms, i + 1, Append(map,
                      [key |-> k, team1 |-> ms[i].team1, team2 |-> ms[i].team2,
                       tumfooleryProb |-> DefaultTumfooleryProb,
                       kalshiProb |-> None,
                       manifoldProb |-> Some(ms[i].probability),
                       fromMock |-> FALSE]))
             ELSE AddManifold(ms, i + 1, map)

\* compareData: TUMfoolery first, then Kalshi, then Manifold.
BuildCompareData(mock, kalshi, manifold) ==
    AddManifold(manifold, 1, AddKalshi(kalshi, 1, AddTumfoolery(mock, 1, <<>>)))

\* ------------------------------------------------------------------
\* CompareMarketCard
\* ------------------------------------------------------------------

CalculateDiscrepancyNoAbs(prob1, prob2) == prob1 - prob2

\* calculateDiscrepancy: Math.abs(prob1 - prob2)
CalculateDiscrepancy(prob1, prob2) == Abs(prob1 - prob2)

MaxDiscrepancyNoCross(t, k, m) ==
    Max2(IF IsDefined(k) THEN CalculateDiscrepancy(t, Val(k)) ELSE 0,
         IF IsDefined(m) THEN CalculateDiscrepancy(t, Val(m)) ELSE 0)

\* maxDiscrepancy: Math.max over the three pairs, 0 for a pair with an
\* undefined member.
MaxDiscrepancy(t, k, m) ==
    Max3(IF IsDefined(k) THEN CalculateDiscrepancy(t, Val(k)) ELSE 0,
         IF IsDefined(m) THEN CalculateDiscrepancy(t, Val(m)) ELSE 0,
         IF IsDefined(k) /\ IsDefined(m)
             THEN CalculateDiscrepancy(Val(k), Val(m)) ELSE 0)

\* hasSignificantDiscrepancy: maxDiscrepancy > 0.1
HasSignificantDiscrepancy(d) == d > 10

\* The card rendered for one compareData record.
Card(rec) ==
    LET d == MaxDiscrepancy(rec.tumfooleryProb, rec.kalshiProb, rec.manifoldProb)
    IN  [key |-> rec.key, maxDiscrepancy |-> d,
         hasSignificantDiscrepancy |-> HasSignificantDiscrepancy(d)]

\* ------------------------------------------------------------------
\* Rendering specification: inputs drawn in Init, one render action per page
\* ------------------------------------------------------------------

MaxCmpLen == 1

Teams == {"Arsenal", "Chelsea"}
Code(t) == IF t = "Arsenal" THEN "ARS" ELSE "CHE"
Dates == {"25NOV08", "25NOV09"}
Probs == {0, 40, 100}

\* Kalshi markets of one fixture, in either team order, with or without the
\* full team names, at each price.
CmpKalshiMarkets ==
    { KM(Code(a) \o Code(b) \o d, "KX-" \o d \o Code(a) \o Code(b), p,
         Code(a), Code(b), IF full THEN a ELSE "", IF full THEN b ELSE "",
         d, Code(a)) :
        <<a, b, d, p, full>> \in
            { x \in Teams \X Teams \X Dates \X Probs \X BOOLEAN : x[1] # x[2] } }

SeqsUpTo(S, n) == UNION { [1..k -> S] : k \in 0..n }

\* Markets of the fixture Arsenal v Chelsea: the Arsenal and the tie market,
\* a market known as a win market by its description only, and a market whose
\* ticker gave no team, date or prop.
FixtureMarkets ==
    { KM("f1", "KX-25NOV08ARSCHE-ARS", 40, "ARS", "CHE", "Arsenal", "Chelsea",
         "25NOV08", "ARS"),
      KM("f2", "KX-25NOV08ARSCHE-TIE", 0, "ARS", "CHE", "Arsenal", "Chelsea",
         "25NOV08", "TIE"),
      WithText(KM("f3", "KX-25NOV08ARSCHE-X", 100, "ARS", "CHE", "Arsenal",
                  "Chelsea", "25NOV08", "X"), "", "Chelsea Wins"),
      KM("f4", "KX", 40, "", "", "", "", "", "") }

\* The lists of one or two of these markets.
FixtureLists == SeqsUpTo(FixtureMarkets, 2) \ {<<>>}

CmpManifoldMarkets ==
    { MM(x[1], x[2], x[3]) :
        x \in { y \in Teams \X Teams \X Probs : y[1] # y[2] } }

CmpMockChoices ==
    {<<>>} \cup { <<MP("Arsenal", "Chelsea", p)>> : p \in Probs }

FmtIdle ==
    /\ fmtCents = 0
    /\ fmtOut = <<>>

RenderInputs ==
    /\ activePage \in {"kalshi", "compare"}
    /\ kalshiMarkets \in SeqsUpTo(CmpKalshiMarkets, MaxCmpLen) \cup FixtureLists
    /\ manifoldMarkets \in SeqsUpTo(CmpManifoldMarkets, MaxCmpLen)
    /\ mockMatches \in CmpMockChoices
    /\ rendered = FALSE
    /\ kalshiGroups = <<>>
    /\ filteredGroups = <<>>
    /\ compareData = <<>>
    /\ cards = <<>>

RelayIdle ==
    /\ route = "stream"
    /\ sse = [isClosed |-> FALSE, open |-> TRUE, enqueued |-> <<>>, closeCalls |-> 0]
    /\ buffer = <<>>
    /\ procOut = <<>>
    /\ written = <<>>
    /\ proc = [alive |-> TRUE, exitFired |-> FALSE, errorFired |-> FALSE,
               killed |-> FALSE]
    /\ stderrSeen = FALSE
    /\ splitLines = 0

HomeIdle ==
    /\ mounted = FALSE
    /\ lsKalshi = [markets |-> <<>>, fresh |-> FALSE]
    /\ kalshiLoading = FALSE
    /\ kalshiError = FALSE
    /\ kalshiStreaming = FALSE
    /\ kalshiScrapingDate = FALSE
    /\ kalshiRefreshKey = 0
    /\ eventSourceRef = 0
    /\ scrapingStartedRef = FALSE
    /\ sessions = <<>>
    /\ cleanupOf = 0
    /\ dashFetch = 0

RtTickers == {"T1", "T2"}

RtIdle ==
    /\ rtMounted = FALSE
    /\ updates = <<>>
    /\ connectionStatus = "connecting"
    /\ errorMessage = ""
    /\ priceHistoryRef = [t \in RtTickers |-> <<>>]
    /\ eventSource = "none"
    /\ received = <<>>

LibIdle ==
    /\ logoName = <<>>
    /\ logoOut = <<>>

Users == {"u1", "u2"}

\* walletAddress: null
NoWallet == "null"

BetsIdle ==
    /\ wallet = [u \in Users |-> NoWallet]
    /\ bets = <<>>
    /\ placeRequests = <<>>

ChatIdle ==
    /\ chatMessages = <<>>
    /\ saves = <<>>
    /\ lastSaved = <<>>

ApiIdle == BetsIdle /\ ChatIdle

SrcIdle ==
    /\ manifoldLoading = FALSE
    /\ manifoldError = FALSE
    /\ lsManifold = [markets |-> <<>>, age |-> "none"]
    /\ manifoldFetch = 0
    /\ manifoldPreview = 0
    /\ kalshiRetry = 0
    /\ staleIds = {}
    /\ dataAge = [kalshi |-> "none", manifold |-> "none"]

RenderInit ==
    /\ RenderInputs
    /\ FmtIdle
    /\ RelayIdle
    /\ HomeIdle
    /\ RtIdle
    /\ LibIdle
    /\ ApiIdle
    /\ SrcIdle

\* Home returns the compare page: builds compareData and one card per record.
RenderComparePage ==
    /\ activePage = "compare"
    /\ ~rendered
    /\ compareData' = BuildCompareData(mockMatches, kalshiMarkets, manifoldMarkets)
    /\ cards' = [i \in 1..Len(compareData') |-> Card(compareData'[i])]
    /\ rendered' = TRUE
    /\ UNCHANGED <<activePage, kalshiMarkets, manifoldMarkets, mockMatches,
                   kalshiGroups, filteredGroups>>
    /\ UNCHANGED <<fmtVars, relayVars, homeVars, rtVars, srcVars, libVars, apiVars>>

\* renderColumn("kalshi"): groups the markets by matchKey and keeps the main
\* markets of each group.
RenderKalshiColumn ==
    /\ activePage = "kalshi"
    /\ ~rendered
    /\ kalshiGroups' = GroupMarkets(kalshiMarkets, 1, {}, <<>>)
    /\ filteredGroups' = FilterGroups(kalshiGroups', 1, <<>>)
    /\ rendered' = TRUE
    /\ UNCHANGED <<activePage, kalshiMarkets, manifoldMarkets, mockMatches,
                   compareData, cards>>
    /\ UNCHANGED <<fmtVars, relayVars, homeVars, rtVars, srcVars, libVars, apiVars>>

RenderNext == RenderComparePage \/ RenderKalshiColumn

SpecRender == RenderInit /\ [][RenderNext]_vars

\* ------------------------------------------------------------------
\* Percentage formatting
\* ------------------------------------------------------------------
\* A raw number is held in hundredths: the cents price 42 is 4200, the
\* probability 0.42 is 42. A rendered percentage "42.0%" is held as its
\* number of tenths, 420.

\* Number.toFixed(1) of a non-negative number in hundredths, in tenths.
ToFixed1(h) == (h + 5) \div 10

\* RealtimeKalshiUpdates.formatPercentage (value not null):
\* value > 1 ? value : value * 100, then toFixed(1).
FormatPercentage(value) ==
    ToFixed1(IF value > 100 THEN value ELSE value * 100)

\* KalshiMarketRow: probability = market.yes_price, shown by
\* formatPercentage = (value * 100).toFixed(1).
RowFormatPercentage(value) == ToFixed1(value * 100)

\* The raw number of a price of c cents, and of the probability c / 100.
CentsRaw(c) == c * 100
ProbRaw(c) == c

MaxCents == 100

FmtInputs ==
    /\ fmtCents \in 0..MaxCents
    /\ fmtOut = <<>>

\* Render the same price in both conventions, in the real-time view and in the
\* Kalshi market row.
FormatBoth ==
    /\ fmtOut = <<>>
    /\ fmtOut' = [realtimeCents |-> FormatPercentage(CentsRaw(fmtCents)),
                  realtimeProb |-> FormatPercentage(ProbRaw(fmtCents)),
                  rowCents |-> RowFormatPercentage(CentsRaw(fmtCents)),
                  rowProb |-> RowFormatPercentage(ProbRaw(fmtCents)),
                  storedCents |-> CentsRaw(fmtCents),
                  storedProb |-> ProbRaw(fmtCents)]
    /\ UNCHANGED fmtCents
    /\ UNCHANGED <<renderVars, relayVars, homeVars, rtVars, srcVars, libVars, apiVars>>

FmtNext == FormatBoth

RenderIdle ==
    /\ activePage = "dashboard"
    /\ kalshiMarkets = <<>>
    /\ manifoldMarkets = <<>>
    /\ mockMatches = <<>>
    /\ rendered = FALSE
    /\ kalshiGroups = <<>>
    /\ filteredGroups = <<>>
    /\ compareData = <<>>
    /\ cards = <<>>

FmtInit ==
    /\ FmtInputs
    /\ RenderIdle
    /\ RelayIdle
    /\ HomeIdle
    /\ RtIdle
    /\ LibIdle
    /\ ApiIdle
    /\ SrcIdle

SpecFormat == FmtInit /\ [][FmtNext]_vars

\* C10: a price of c cents and the probability c/100 render as the same
\* percentage, c percent, for every c in 0..100 (real-time view).
C10_UnitNormalisation ==
    fmtOut # <<>> =>
        /\ fmtOut.realtimeCents = fmtCents * 10
        /\ fmtOut.realtimeProb = fmtCents * 10

\* ------------------------------------------------------------------
\* SSE relay (GET of /api/kalshi/stream and /api/kalshi/markets-stream)
\* ------------------------------------------------------------------
\* stdout is a sequence of one-character strings. A trimmed line parses as
\* JSON exactly when it is a run of digits (JSON.parse("11") is 11 and
\* JSON.stringify gives "11" back; "1 1" and "x" throw).

NL == "\n"
Blank == {" "}
Digits == {"1"}
StdoutChars == Digits \cup {"x", " ", NL}

\* sendSSE: nothing once isClosed; enqueue, or on the controller's
\* invalid-state error set isClosed.
SendSSE(c, msg) ==
    IF c.isClosed THEN c
    ELSE IF c.open THEN [c EXCEPT !.enqueued = Append(@, msg)]
    ELSE [c EXCEPT !.isClosed = TRUE]

\* A closeController without its isClosed guard.
CloseUnguarded(c) ==
    [c EXCEPT !.closeCalls = @ + 1, !.open = FALSE, !.isClosed = TRUE]

\* closeController: controller.close() once, guarded by isClosed.
CloseController(c) ==
    IF c.isClosed THEN c
    ELSE [c EXCEPT !.closeCalls = @ + 1, !.open = FALSE, !.isClosed = TRUE]

RECURSIVE SplitNL(_, _, _)
\* String.split('\n'): the pieces between newlines, the last one being what
\* follows the last newline (possibly empty).
SplitNL(s, i, cur) ==
    IF i > Len(s) THEN <<cur>>
    ELSE IF s[i] = NL THEN <<cur>> \o SplitNL(s, i + 1, <<>>)
    ELSE SplitNL(s, i + 1, Append(cur, s[i]))

RECURSIVE TrimLeft(_)
TrimLeft(s) ==
    IF s # <<>> /\ s[1] \in Blank THEN TrimLeft(Tail(s)) ELSE s

RECURSIVE TrimRight(_)
TrimRight(s) ==
    IF s # <<>> /\ s[Len(s)] \in Blank THEN TrimRight(SubSeq(s, 1, Len(s) - 1))
    ELSE s

\* String.trim()
Trim(s) == TrimRight(TrimLeft(s))

\* JSON.parse succeeds on the trimmed line.
IsJSON(t) == t # <<>> /\ \A i \in DOMAIN t : t[i] \in Digits

LineMessageAsParsed(t) == [from |-> "stdout", type |-> "json", body |-> t]

\* The message a complete line is forwarded as: the parsed JSON, or (stream
\* route only) { type: 'raw', message: trimmedLine }.
LineMessage(t) ==
    IF IsJSON(t) THEN [from |-> "stdout", type |-> "json", body |-> t]
    ELSE [from |-> "stdout", type |-> "raw", body |-> t]

RECURSIVE ForwardLinesAbortOnError(_, _, _, _)
ForwardLinesAbortOnError(r, c, lines, i) ==
    IF i > Len(lines) THEN c
    ELSE LET t == Trim(lines[i]) IN
         IF t = <<>> THEN ForwardLinesAbortOnError(r, c, lines, i + 1)
         ELSE IF IsJSON(t)
              THEN ForwardLinesAbortOnError(r, SendSSE(c, LineMessage(t)), lines, i + 1)
              ELSE IF r = "stream" THEN SendSSE(c, LineMessage(t)) ELSE c

RECURSIVE ForwardLines(_, _, _, _)
\* for (const line of lines): trim, skip blank, parse and sendSSE; a line that
\* does not parse is sent as raw on the stream route and ignored on the
\* markets-stream route.
ForwardLines(r, c, lines, i) ==
    IF i > Len(lines) THEN c
    ELSE LET t == Trim(lines[i]) IN
         IF t = <<>> THEN ForwardLines(r, c, lines, i + 1)
         ELSE IF IsJSON(t) \/ r = "stream"
              THEN ForwardLines(r, SendSSE(c, LineMessage(t)), lines, i + 1)
              ELSE ForwardLines(r, c, lines, i + 1)

KeepNothing(lines) == <<>>

\* buffer = lines.pop() || ''
KeepIncomplete(lines) == lines[Len(lines)]

\* lines after lines.pop()
CompleteLines(lines) == SubSeq(lines, 1, Len(lines) - 1)

MaxBytes == 4

\* The first sendSSE of start(): the connection status message.
StartMessage == [from |-> "start", type |-> "status", body |-> <<>>]

RelayStart ==
    /\ route \in {"stream", "markets-stream"}
    /\ sse = [isClosed |-> FALSE, open |-> TRUE, enqueued |-> <<StartMessage>>,
              closeCalls |-> 0]
    /\ buffer = <<>>
    /\ procOut = <<>>
    /\ written = <<>>
    /\ proc = [alive |-> TRUE, exitFired |-> FALSE, errorFired |-> FALSE,
               killed |-> FALSE]
    /\ stderrSeen = FALSE
    /\ splitLines = 0

\* The subprocess writes one more byte to stdout.
ProcWrite ==
    /\ proc.alive
    /\ Len(written) < MaxBytes
    /\ \E ch \in StdoutChars :
         /\ written' = Append(written, ch)
         /\ procOut' = Append(procOut, ch)
    /\ UNCHANGED <<route, sse, buffer, proc, stderrSeen, splitLines>>
    /\ UNCHANGED <<renderVars, fmtVars, homeVars, rtVars, srcVars, libVars, apiVars>>

\* pythonProcess.stdout.on('data'): a chunk of any length of what is pending.
StdoutData ==
    /\ procOut # <<>>
    /\ \E n \in 1..Len(procOut) :
         LET lines == SplitNL(buffer \o SubSeq(procOut, 1, n), 1, <<>>) IN
         /\ sse' = ForwardLines(route, sse, CompleteLines(lines), 1)
         /\ buffer' = KeepIncomplete(lines)
         /\ procOut' = SubSeq(procOut, n + 1, Len(procOut))
         /\ splitLines' = IF Trim(buffer) # <<>> /\ Len(lines) > 1 /\ splitLines = 0
                          THEN 1 ELSE splitLines
    /\ UNCHANGED <<route, written, proc, stderrSeen>>
    /\ UNCHANGED <<renderVars, fmtVars, homeVars, rtVars, srcVars, libVars, apiVars>>

\* pythonProcess.stderr.on('data'): an error message unless the text is a warning.
StderrData ==
    /\ ~stderrSeen
    /\ stderrSeen' = TRUE
    /\ \E warning \in BOOLEAN :
         sse' = IF warning THEN sse
                ELSE SendSSE(sse, [from |-> "stderr", type |-> "error", body |-> <<>>])
    /\ UNCHANGED <<route, buffer, procOut, written, proc, splitLines>>
    /\ UNCHANGED <<renderVars, fmtVars, homeVars, rtVars, srcVars, libVars, apiVars>>

\* pythonProcess.on('exit'): the terminal message (error for a non-zero code,
\* status for 0 or null), then closeController.
ProcExit ==
    /\ ~proc.exitFired
    /\ \E code \in {"null", "0", "1"} :
         /\ (code = "null") = proc.killed
         /\ sse' = CloseController(SendSSE(sse,
                [from |-> "exit",
                 type |-> IF code # "null" /\ code # "0" THEN "error" ELSE "status",
                 body |-> <<>>]))
    /\ proc' = [proc EXCEPT !.alive = FALSE, !.exitFired = TRUE]
    /\ UNCHANGED <<route, buffer, procOut, written, stderrSeen, splitLines>>
    /\ UNCHANGED <<renderVars, fmtVars, homeVars, rtVars, srcVars, libVars, apiVars>>

\* pythonProcess.on('error'): the subprocess could not be spawned or has
\* failed; an error message, then closeController.
ProcError ==
    /\ ~proc.errorFired
    /\ ~proc.exitFired
    /\ sse' = CloseController(SendSSE(sse,
            [from |-> "error", type |-> "error", body |-> <<>>]))
    /\ proc' = [proc EXCEPT !.errorFired = TRUE, !.alive = FALSE]
    /\ UNCHANGED <<route, buffer, procOut, written, stderrSeen, splitLines>>
    /\ UNCHANGED <<renderVars, fmtVars, homeVars, rtVars, srcVars, libVars, apiVars>>

\* An abort listener that leaves the controller as it is.
AbortKeepOpen(c) == c

\* closeController() of the abort listener.
AbortClose(c) == CloseController(c)

\* request.signal 'abort': kill the subprocess with SIGTERM, closeController.
ClientAbort ==
    /\ ~proc.killed
    /\ proc' = [proc EXCEPT !.killed = TRUE, !.alive = FALSE]
    /\ sse' = AbortClose(sse)
    /\ UNCHANGED <<route, buffer, procOut, written, stderrSeen, splitLines>>
    /\ UNCHANGED <<renderVars, fmtVars, homeVars, rtVars, srcVars, libVars, apiVars>>

\* The consumer cancels the response stream: the controller stops accepting
\* chunks (enqueue then throws an invalid-state error).
StreamCancel ==
    /\ sse.open
    /\ sse' = [sse EXCEPT !.open = FALSE]
    /\ UNCHANGED <<route, buffer, procOut, written, proc, stderrSeen, splitLines>>
    /\ UNCHANGED <<renderVars, fmtVars, homeVars, rtVars, srcVars, libVars, apiVars>>

RelayNext ==
    \/ ProcWrite
    \/ StdoutData
    \/ StderrData
    \/ ProcExit
    \/ ProcError
    \/ ClientAbort
    \/ StreamCancel

RelayInit ==
    /\ RelayStart
    /\ RenderIdle
    /\ FmtIdle
    /\ HomeIdle
    /\ RtIdle
    /\ LibIdle
    /\ ApiIdle
    /\ SrcIdle

SpecRelay == RelayInit /\ [][RelayNext]_vars

\* ------------------------------------------------------------------
\* Team logos (getTeamLogo)
\* ------------------------------------------------------------------
\* A team name is a sequence of characters; a logo path is a string.

UpperLetters ==
    <<"A", "B", "C", "D", "E", "F", "G", "H", "I", "J", "K", "L", "M", "N", "O",
      "P", "Q", "R", "S", "T", "U", "V", "W", "X", "Y", "Z">>

LowerLetters ==
    <<"a", "b", "c", "d", "e", "f", "g", "h", "i", "j", "k", "l", "m", "n", "o",
      "p", "q", "r", "s", "t", "u", "v", "w", "x", "y", "z">>

\* String.toLowerCase() and String.toUpperCase()
ToLowerCase(s) ==
    [i \in DOMAIN s |->
        IF \E k \in DOMAIN UpperLetters : UpperLetters[k] = s[i]
        THEN LowerLetters[CHOOSE k \in DOMAIN UpperLetters : UpperLetters[k] = s[i]]
        ELSE s[i]]

ToUpperCase(s) ==
    [i \in DOMAIN s |->
        IF \E k \in DOMAIN LowerLetters : LowerLetters[k] = s[i]
        THEN UpperLetters[CHOOSE k \in DOMAIN LowerLetters : LowerLetters[k] = s[i]]
        ELSE s[i]]

\* a.includes(b)
StrIncludes(a, b) ==
    \E i \in 0..(Len(a) - Len(b)) : SubSeq(a, i + 1, i + Len(b)) = b

\* teamLogoMap, in the order of its keys.
teamLogoMap ==
    << [key |-> <<"A", "r", "s", "e", "n", "a", "l">>, logo |-> "/Icons/Aresenal.png"],
       [key |-> <<"A", "s", "t", "o", "n", " ", "V", "i", "l", "l", "a">>, logo |-> "/Icons/Villa.png"],
       [key |-> <<"B", "o", "u", "r", "n", "e", "m", "o", "u", "t", "h">>, logo |-> "/Icons/Bournemouth.png"],
       [key |-> <<"B", "r", "e", "n", "t", "f", "o", "r", "d">>, logo |-> "/Icons/Brentford.png"],
       [key |-> <<"B", "r", "i", "g", "h", "t", "o", "n">>, logo |-> "/Icons/Brighton.png"],
       [key |-> <<"B", "u", "r", "n", "l", "e", "y">>, logo |-> "/Icons/Burnley.png"],
       [key |-> <<"C", "h", "e", "l", "s", "e", "a">>, logo |-> "/Icons/Chelsea.png"],
       [key |-> <<"M", "a", "n", "c", "h", "e", "s", "t", "e", "r", " ", "C", "i", "t", "y">>, logo |-> "/Icons/City.png"],
       [key |-> <<"C", "r", "y", "s", "t", "a", "l", " ", "P", "a", "l", "a", "c", "e">>, logo |-> "/Icons/Palace.png"],
       [key |-> <<"E", "v", "e", "r", "t", "o", "n">>, logo |-> "/Icons/Everton.png"],
       [key |-> <<"F", "u", "l", "h", "a", "m">>, logo |-> "/Icons/Fulham.png"],
       [key |-> <<"L", "e", "e", "d", "s">>, logo |-> "/Icons/Leeds.png"],
       [key |-> <<"L", "e", "i", "c", "e", "s", "t", "e", "r">>, logo |-> "/Icons/Leicester.png"],
       [key |-> <<"L", "i", "v", "e", "r", "p", "o", "o", "l">>, logo |-> "/Icons/Liverpool.png"],
       [key |-> <<"M", "a", "n", "c", "h", "e", "s", "t", "e", "r", " ", "U", "n", "i", "t", "e", "d">>, logo |-> "/Icons/United.png"],
       [key |-> <<"N", "e", "w", "c", "a", "s", "t", "l", "e">>, logo |-> "/Icons/Newcastle.png"],
       [key |-> <<"N", "o", "t", "t", "i", "n", "g", "h", "a", "m", " ", "F", "o", "r", "e", "s", "t">>, logo |-> "/Icons/Forest.png"],
       [key |-> <<"S", "o", "u", "t", "h", "a", "m", "p", "t", "o", "n">>, logo |-> "/Icons/Southampton.png"],
       [key |-> <<"S", "u", "n", "d", "e", "r", "l", "a", "n", "d">>, logo |-> "/Icons/Sunderland.png"],
       [key |-> <<"T", "o", "t", "t", "e", "n", "h", "a", "m">>, logo |-> "/Icons/Spurs.png"],
       [key |-> <<"W", "e", "s", "t", " ", "H", "a", "m">>, logo |-> "/Icons/Westham.png"],
       [key |-> <<"W", "o", "l", "v", "e", "s">>, logo |-> "/Icons/Wolves.png"],
       [key |-> <<"S", "p", "u", "r", "s">>, logo |-> "/Icons/Spurs.png"],
       [key |-> <<"M", "a", "n", " ", "C", "i", "t", "y">>, logo |-> "/Icons/City.png"],
       [key |-> <<"M", "a", "n", " ", "U", "t", "d">>, logo |-> "/Icons/United.png"],
       [key |-> <<"M", "a", "n", " ", "U", "n", "i", "t", "e", "d">>, logo |-> "/Icons/United.png"],
       [key |-> <<"N", "e", "w", "c", "a", "s", "t", "l", "e", " ", "U", "n", "i", "t", "e", "d">>, logo |-> "/Icons/Newcastle.png"],
       [key |-> <<"W", "e", "s", "t", " ", "H", "a", "m", " ", "U", "n", "i", "t", "e", "d">>, logo |-> "/Icons/Westham.png"],
       [key |-> <<"W", "o", "l", "v", "e", "r", "h", "a", "m", "p", "t", "o", "n">>, logo |-> "/Icons/Wolves.png"],
       [key |-> <<"B", "r", "i", "g", "h", "t", "o", "n", " ", "&", " ", "H", "o", "v", "e", " ", "A", "l", "b", "i", "o", "n">>, logo |-> "/Icons/Brighton.png"],
       [key |-> <<"A", "R", "S">>, logo |-> "/Icons/Aresenal.png"],
       [key |-> <<"A", "V", "L">>, logo |-> "/Icons/Villa.png"],
       [key |-> <<"B", "O", "U">>, logo |-> "/Icons/Bournemouth.png"],
       [key |-> <<"B", "R", "E">>, logo |-> "/Icons/Brentford.png"],
       [key |-> <<"B", "H", "A">>, logo |-> "/Icons/Brighton.png"],
       [key |-> <<"B", "U", "R">>, logo |-> "/Icons/Burnley.png"],
       [key |-> <<"C", "H", "E">>, logo |-> "/Icons/Chelsea.png"],
       [key |-> <<"M", "C", "I">>, logo |-> "/Icons/City.png"],
       [key |-> <<"C", "R", "Y">>, logo |-> "/Icons/Palace.png"],
       [key |-> <<"E", "V", "E">>, logo |-> "/Icons/Everton.png"],
       [key |-> <<"F", "U", "L">>, logo |-> "/Icons/Fulham.png"],
       [key |-> <<"L", "E", "E">>, logo |-> "/Icons/Leeds.png"],
       [key |-> <<"L", "E", "I">>, logo |-> "/Icons/Leicester.png"],
       [key |-> <<"L", "I", "V">>, logo |-> "/Icons/Liverpool.png"],
       [key |-> <<"M", "U", "N">>, logo |-> "/Icons/United.png"],
       [key |-> <<"N", "E", "W">>, logo |-> "/Icons/Newcastle.png"],
       [key |-> <<"N", "F", "O">>, logo |-> "/Icons/Forest.png"],
       [key |-> <<"S", "O", "U">>, logo |-> "/Icons/Southampton.png"],
       [key |-> <<"S", "U", "N">>, logo |-> "/Icons/Sunderland.png"],
       [key |-> <<"T", "O", "T">>, logo |-> "/Icons/Spurs.png"],
       [key |-> <<"W", "H", "U">>, logo |-> "/Icons/Westham.png"],
       [key |-> <<"W", "O", "L">>, logo |-> "/Icons/Wolves.png"] >>

DefaultLogo == "/Icons/PL.png"

\* The properties every object literal inherits from Object.prototype: a
\* lookup by one of these names gives a function, not a path.
ObjectPrototypeNames ==
    { <<"c", "o", "n", "s", "t", "r", "u", "c", "t", "o", "r">>,
      <<"t", "o", "S", "t", "r", "i", "n", "g">>,
      <<"v", "a", "l", "u", "e", "O", "f">> }

InheritedFunction == "[Function]"

\* Array.find over Object.entries(teamLogoMap): the first entry that
\* satisfies Test, as a sequence of at most one logo.
FindEntry(Test(_)) ==
    LET hits == { i \in DOMAIN teamLogoMap : Test(teamLogoMap[i].key) } IN
    IF hits = {} THEN <<>>
    ELSE <<teamLogoMap[CHOOSE i \in hits : \A j \in hits : i <= j].logo>>

\* An own key of the table equal to the name.
TableExact(teamName) ==
    LET Same(key) == key = teamName IN FindEntry(Same)

\* teamLogoMap[teamName]: an own key, or a property of Object.prototype.
PropertyLookup(teamName) ==
    IF TableExact(teamName) # <<>> THEN TableExact(teamName)
    ELSE IF teamName \in ObjectPrototypeNames THEN <<InheritedFunction>>
    ELSE <<>>

\* key.toLowerCase() === normalizedName.toLowerCase()
CaseInsensitiveMatch(teamName) ==
    LET Same(key) == ToLowerCase(key) = ToLowerCase(Trim(teamName))
    IN  FindEntry(Same)

\* The name contains the key or the key contains the name, in lower case.
PartialMatch(teamName) ==
    LET n == ToLowerCase(Trim(teamName))
        Test(key) == StrIncludes(n, ToLowerCase(key)) \/ StrIncludes(ToLowerCase(key), n)
    IN  FindEntry(Test)

\* getTeamLogo(teamName)
getTeamLogo(teamName) ==
    IF teamName = <<>> THEN DefaultLogo
    ELSE IF PropertyLookup(teamName) # <<>> THEN PropertyLookup(teamName)[1]
    ELSE IF CaseInsensitiveMatch(teamName) # <<>> THEN CaseInsensitiveMatch(teamName)[1]
    ELSE IF PartialMatch(teamName) # <<>> THEN PartialMatch(teamName)[1]
    ELSE DefaultLogo

\* Names as they come from the sources: a key of the table, a fragment of
\* one, a club that is not in the table, a word that is no club at all.
BaseNames ==
    { <<>>,
      <<"A", "r", "s", "e", "n", "a", "l">>,
      <<"C", "H", "E">>,
      <<"M", "a", "n", " ", "U", "n", "i", "t", "e", "d">>,
      <<"C", "h", "e", "s", "t", "e", "r">>,
      <<"L", "u", "t", "o", "n">>,
      <<"F", "o", "r", "e", "s", "t">>,
      <<"c", "o", "n", "s", "t", "r", "u", "c", "t", "o", "r">> }

Padding == { <<>>, <<" ">> }

LogoNames ==
    { l \o c \o r :
        l \in Padding, r \in Padding,
        c \in BaseNames \cup { ToLowerCase(b) : b \in BaseNames }
                        \cup { ToUpperCase(b) : b \in BaseNames } }

LogoInit ==
    /\ logoName \in LogoNames
    /\ logoOut = <<>>
    /\ ApiIdle
    /\ RenderIdle
    /\ FmtIdle
    /\ RelayIdle
    /\ HomeIdle
    /\ RtIdle
    /\ SrcIdle

\* A component calls getTeamLogo with the name.
ResolveLogo ==
    /\ logoOut = <<>>
    /\ logoOut' = <<getTeamLogo(logoName)>>
    /\ UNCHANGED logoName
    /\ UNCHANGED <<renderVars, fmtVars, relayVars, homeVars, rtVars, srcVars,
                   apiVars>>

LogoNext == ResolveLogo

SpecLogo == LogoInit /\ [][LogoNext]_vars

\* ------------------------------------------------------------------
\* API routes: wallet connect / disconnect and bets/place
\* ------------------------------------------------------------------

\* Most place-bet requests explored.
MaxPlace == 2

\* Who sends a request: a signed-in user, or nobody (auth() gives no session).
Anonymous == "anon"
Callers == Users \cup {Anonymous}

\* walletAddress of a connect body; "" stands for a missing or empty field.
Addresses == {"0xA", "0xB"}

\* A wallet check that lets every user pass.
AnyWallet(address) == TRUE

\* if (!user?.walletAddress): the user has no wallet.
HasWallet(address) == address # NoWallet /\ address # ""

\* POST of the wallet route: 401 without a session, 400 without address or
\* type, else prisma.user.update({ walletAddress, walletType }).
ConnectWallet ==
    /\ \E caller \in Callers, address \in Addresses \cup {""}, hasType \in BOOLEAN :
         wallet' = IF caller # Anonymous /\ address # "" /\ hasType
                   THEN [wallet EXCEPT ![caller] = address]
                   ELSE wallet
    /\ UNCHANGED <<bets, placeRequests, chatMessages, saves, lastSaved>>
    /\ UNCHANGED <<renderVars, fmtVars, relayVars, homeVars, rtVars, srcVars, libVars>>

\* DELETE of the wallet route: 401 without a session, else walletAddress: null.
DisconnectWallet ==
    /\ \E caller \in Callers :
         wallet' = IF caller # Anonymous
                   THEN [wallet EXCEPT ![caller] = NoWallet]
                   ELSE wallet
    /\ UNCHANGED <<bets, placeRequests, chatMessages, saves, lastSaved>>
    /\ UNCHANGED <<renderVars, fmtVars, relayVars, homeVars, rtVars, srcVars, libVars>>

\* POST bets/place up to its second database call: auth(), the body, the
\* check of the seven fields, prisma.user.findUnique and the wallet check.
\* A request that passes goes on to prisma.bet.create.
PlaceRequest(caller, complete) ==
    LET address == IF caller = Anonymous THEN NoWallet ELSE wallet[caller] IN
    [caller |-> caller, complete |-> complete, walletAddress |-> address,
     status |-> IF caller = Anonymous THEN 401
                ELSE IF ~complete THEN 400
                ELSE IF ~HasWallet(address) THEN 400
                ELSE 0,
     bet |-> 0]

PlaceLookup ==
    /\ Len(placeRequests) < MaxPlace
    /\ \E caller \in Callers, complete \in BOOLEAN :
         placeRequests' = Append(placeRequests, PlaceRequest(caller, complete))
    /\ UNCHANGED <<wallet, bets, chatMessages, saves, lastSaved>>
    /\ UNCHANGED <<renderVars, fmtVars, relayVars, homeVars, rtVars, srcVars, libVars>>

\* prisma.bet.create of a request that passed the checks, and the response:
\* the bet with the address read before and status "pending", or 500 when
\* the database call throws.
PlaceCreate ==
    /\ \E r \in DOMAIN placeRequests, fails \in BOOLEAN :
         /\ placeRequests[r].status = 0
         /\ bets' = IF fails THEN bets
                    ELSE Append(bets,
                                [id |-> Len(bets) + 1,
                                 userId |-> placeRequests[r].caller,
                                 complete |-> placeRequests[r].complete,
                                 walletAddress |-> placeRequests[r].walletAddress,
                                 status |-> "pending"])
         /\ placeRequests' =
                [placeRequests EXCEPT
                    ![r].status = IF fails THEN 500 ELSE 200,
                    ![r].bet = IF fails THEN 0 ELSE Len(bets) + 1]
    /\ UNCHANGED <<wallet, chatMessages, saves, lastSaved>>
    /\ UNCHANGED <<renderVars, fmtVars, relayVars, homeVars, rtVars, srcVars, libVars>>

BetsNext == ConnectWallet \/ DisconnectWallet \/ PlaceLookup \/ PlaceCreate

BetsInit ==
    /\ BetsIdle
    /\ ChatIdle
    /\ LibIdle
    /\ RenderIdle
    /\ FmtIdle
    /\ RelayIdle
    /\ HomeIdle
    /\ RtIdle
    /\ SrcIdle

SpecBets == BetsInit /\ [][BetsNext]_vars

\* ------------------------------------------------------------------
\* API route: chat history (POST), one user and one marketKey
\* ------------------------------------------------------------------

\* Most save requests explored.
MaxSaves == 2

\* The messages arrays the panel posts: the conversation so far, each message
\* named by its timestamp.
ChatLists == {<<1>>, <<1, 2>>, <<1, 2, 3>>}

\* The request arrives with a session and its fields: prisma.chatHistory.upsert.
SaveUpsert ==
    /\ Len(saves) < MaxSaves
    /\ \E messages \in ChatLists :
         saves' = Append(saves, [messages |-> messages, pc |-> "deleteMany"])
    /\ UNCHANGED <<wallet, bets, placeRequests, chatMessages, lastSaved>>
    /\ UNCHANGED <<renderVars, fmtVars, relayVars, homeVars, rtVars, srcVars, libVars>>

\* prisma.chatMessage.deleteMany({ where: { chatHistoryId } })
SaveDeleteMany ==
    /\ \E s \in DOMAIN saves :
         /\ saves[s].pc = "deleteMany"
         /\ chatMessages' = <<>>
         /\ saves' = [saves EXCEPT ![s].pc = "createMany"]
    /\ UNCHANGED <<wallet, bets, placeRequests, lastSaved>>
    /\ UNCHANGED <<renderVars, fmtVars, relayVars, homeVars, rtVars, srcVars, libVars>>

\* prisma.chatMessage.createMany({ data: messages.map(...) }) and the response.
SaveCreateMany ==
    /\ \E s \in DOMAIN saves :
         /\ saves[s].pc = "createMany"
         /\ chatMessages' = chatMessages \o saves[s].messages
         /\ saves' = [saves EXCEPT ![s].pc = "done"]
         /\ lastSaved' = saves[s].messages
    /\ UNCHANGED <<wallet, bets, placeRequests>>
    /\ UNCHANGED <<renderVars, fmtVars, relayVars, homeVars, rtVars, srcVars, libVars>>

RECURSIVE InsertByTimestamp(_, _)
InsertByTimestamp(sorted, m) ==
    IF sorted = <<>> THEN <<m>>
    ELSE IF m < Head(sorted) THEN <<m>> \o sorted
    ELSE <<Head(sorted)>> \o InsertByTimestamp(Tail(sorted), m)

RECURSIVE OrderByTimestamp(_)
\* messages: { orderBy: { timestamp: "asc" } } of the GET handler.
OrderByTimestamp(rows) ==
    IF rows = <<>> THEN <<>>
    ELSE InsertByTimestamp(OrderByTimestamp(SubSeq(rows, 1, Len(rows) - 1)),
                           rows[Len(rows)])

ChatNext == SaveUpsert \/ SaveDeleteMany \/ SaveCreateMany

ChatInit ==
    /\ ChatIdle
    /\ BetsIdle
    /\ LibIdle
    /\ RenderIdle
    /\ FmtIdle
    /\ RelayIdle
    /\ HomeIdle
    /\ RtIdle
    /\ SrcIdle

SpecChat == ChatInit /\ [][ChatNext]_vars

\* ------------------------------------------------------------------
\* Home page: Kalshi scraping sessions
\* ------------------------------------------------------------------

MaxMarkets == 2
MaxSessions == 2
\* Sessions explored while no market is listed or saved.
MaxQuietSessions == 3
MaxDashFetch == 1

Pages == {"dashboard", "kalshi", "compare"}

\* Two markets, each at two prices; the second has no market_id and is known
\* by its ticker.
HomeMarket(id, p) ==
    IF id = "m1"
    THEN KM("m1", "T1", p, "ARS", "CHE", "Arsenal", "Chelsea", "25NOV08", "ARS")
    ELSE KM("", "T2", p, "ARS", "CHE", "Arsenal", "Chelsea", "25NOV08", "TIE")

HomeMarkets == { HomeMarket(id, p) : id \in {"m1", "T2"}, p \in {40, 60} }

\* What an HTTP fetch or localStorage can hold: lists without duplicate ids.
FetchLists ==
    { <<>>, <<HomeMarket("m1", 40)>>, <<HomeMarket("T2", 40)>>,
      <<HomeMarket("m1", 40), HomeMarket("T2", 40)>> }

\* What a batch message can carry.
BatchLists ==
    { <<>>, <<HomeMarket("m1", 60)>>,
      <<HomeMarket("T2", 60), HomeMarket("T2", 40)>> }

\* The messages an EventSource can deliver; "invalid" is event.data that
\* JSON.parse rejects.
StreamMessages ==
    { [type |-> t, markets |-> l, kind |-> ""] :
        t \in {"initial_batch", "final_batch"}, l \in BatchLists }
    \cup { [type |-> "market_update", markets |-> <<m>>, kind |-> ""] :
             m \in HomeMarkets }
    \cup { [type |-> "status", markets |-> <<>>, kind |-> k] :
             k \in {"stopping", "closed", "opened", "other"} }
    \cup { [type |-> t, markets |-> <<>>, kind |-> ""] :
             t \in {"error", "raw", "invalid"} }

Ids(list) == { MarketId(list[i]) : i \in DOMAIN list }

\* The state the handlers of Home read and write, as one record.
Home ==
    [markets |-> kalshiMarkets, touched |-> FALSE,
     loading |-> kalshiLoading, error |-> kalshiError,
     streaming |-> kalshiStreaming, scrapingDate |-> kalshiScrapingDate,
     ref |-> eventSourceRef, started |-> scrapingStartedRef,
     sessions |-> sessions, cleanupOf |-> cleanupOf]

\* setKalshiMarkets with a new array.
SetMarkets(h, list) == [h EXCEPT !.markets = list, !.touched = TRUE]

\* The closure of one run of the Kalshi effect: seenMarketIds seeded from the
\* kalshiMarkets of that render, the fetch and its two timers.
NewSession(markets) ==
    [seen |-> Ids(markets), fetch |-> "pending", timeoutArmed |-> TRUE,
     safetyArmed |-> TRUE, es |-> "none", fallback |-> FALSE, streamSeen |-> {}]

\* The effect's cleanup: clearTimeout(timeoutId); clearTimeout(safetyTimeout).
RunCleanup(h) ==
    IF h.cleanupOf = 0 THEN h
    ELSE [h EXCEPT !.sessions[h.cleanupOf].timeoutArmed = FALSE,
                   !.sessions[h.cleanupOf].safetyArmed = FALSE,
                   !.cleanupOf = 0]

\* useEffect(..., [activePage, kalshiRefreshKey]) after a change of either.
KalshiEffect(h, page, key) ==
    LET c == RunCleanup(h) IN
    IF page # "kalshi" THEN c
    ELSE IF ~(~c.started \/ key > 0) THEN c
    ELSE [c EXCEPT !.loading = TRUE, !.error = FALSE, !.streaming = FALSE,
                   !.scrapingDate = TRUE, !.started = TRUE,
                   !.sessions = Append(@, NewSession(c.markets)),
                   !.cleanupOf = Len(c.sessions) + 1]

\* if (eventSourceRef.current) { eventSourceRef.current.close(); ... = null }
CloseRef(h) ==
    IF h.ref = 0 THEN h
    ELSE [h EXCEPT !.sessions[h.ref].es = "closed", !.ref = 0]

StopStreaming(h) ==
    CloseRef([h EXCEPT !.streaming = FALSE, !.scrapingDate = FALSE])

RECURSIVE FilterNew(_, _, _, _)
\* (data.markets || []).filter: keep a market whose id is not seen, adding
\* the id to seenMarketIds.
FilterNew(ms, i, seen, acc) ==
    IF i > Len(ms) THEN [new |-> acc, seen |-> seen]
    ELSE IF MarketId(ms[i]) \in seen THEN FilterNew(ms, i + 1, seen, acc)
    ELSE FilterNew(ms, i + 1, seen \cup {MarketId(ms[i])}, Append(acc, ms[i]))

\* prev.map((m) => (m.market_id || m.ticker) === marketId ? market : m)
ReplaceById(list, market) ==
    [i \in DOMAIN list |->
        IF MarketId(list[i]) = MarketId(market) THEN market ELSE list[i]]

\* initial_batch / final_batch branch of the stream handler.
MainBatch(h, s, ms) ==
    LET r == FilterNew(ms, 1, h.sessions[s].seen, <<>>)
        g == [h EXCEPT !.sessions[s].seen = r.seen]
    IN  IF r.new # <<>> THEN SetMarkets(g, g.markets \o r.new) ELSE g

\* market_update branch of the stream handler.
MainUpdate(h, s, market) ==
    IF MarketId(market) \notin h.sessions[s].seen
    THEN SetMarkets([h EXCEPT !.sessions[s].seen = @ \cup {MarketId(market)}],
                    Append(h.markets, market))
    ELSE SetMarkets(h, ReplaceById(h.markets, market))

\* eventSource.onmessage of the stream started after the HTTP fetch.
MainOnMessage(h, s, msg) ==
    IF msg.type = "invalid" THEN h
    ELSE IF msg.type \in {"initial_batch", "final_batch"} THEN MainBatch(h, s, msg.markets)
    ELSE IF msg.type = "market_update" THEN MainUpdate(h, s, msg.markets[1])
    ELSE IF msg.type = "status" THEN
        IF msg.kind \in {"stopping", "closed"} THEN StopStreaming(h)
        ELSE IF msg.kind = "opened"
             THEN [h EXCEPT !.streaming = TRUE, !.scrapingDate = TRUE]
             ELSE h
    ELSE IF msg.type = "error" THEN StopStreaming(h)
    ELSE h

RECURSIVE FallbackAdd(_, _, _, _)
\* markets.forEach of the fallback handler: a market whose id is not in
\* streamSeenIds is appended; loading and the error are cleared.
FallbackAdd(h, s, ms, i) ==
    IF i > Len(ms) THEN h
    ELSE IF MarketId(ms[i]) \in h.sessions[s].streamSeen
         THEN FallbackAdd(h, s, ms, i + 1)
         ELSE FallbackAdd(
                  SetMarkets([h EXCEPT !.sessions[s].streamSeen =
                                           @ \cup {MarketId(ms[i])},
                                       !.loading = FALSE, !.error = FALSE],
                             Append(h.markets, ms[i])),
                  s, ms, i + 1)

\* eventSource.onmessage of the stream started after a failed HTTP fetch.
FallbackOnMessage(h, s, msg) ==
    IF msg.type = "invalid" THEN h
    ELSE IF msg.type \in {"market_update", "initial_batch", "final_batch"}
    THEN LET g == FallbackAdd(h, s, msg.markets, 1)
         IN  IF msg.type = "final_batch" THEN StopStreaming(g) ELSE g
    ELSE h

\* eventSource.onerror (both streams): readyState is read from
\* eventSourceRef.current.
OnError(h) ==
    IF h.ref # 0
    THEN IF h.sessions[h.ref].es = "closed" THEN StopStreaming(h) ELSE h
    ELSE [h EXCEPT !.streaming = FALSE, !.scrapingDate = FALSE]

MaxManifoldFetch == 1
MaxManifoldPreview == 1
MaxRetry == 1

\* What a Manifold fetch or its localStorage entry can hold.
ManifoldLists == { <<>>, <<MM("Arsenal", "Chelsea", 40)>> }

\* The age of manifoldMarketsTimestamp: no entry, under 5 minutes, 5 to 10
\* minutes, older.
Ages == {"none", "lt5", "lt10", "old"}

\* An age after more than 5 and less than 6 further minutes.
Older(age) ==
    IF age = "none" THEN "none" ELSE IF age = "lt5" THEN "lt10" ELSE "old"

\* The Manifold state the handlers of Home read and write, as one record.
Manifold ==
    [markets |-> manifoldMarkets, touched |-> FALSE, loading |-> manifoldLoading,
     error |-> manifoldError, fetch |-> manifoldFetch, preview |-> manifoldPreview]

\* useEffect(..., [activePage, manifoldRefreshKey]) on the Manifold page: no
\* fetch when the list is not empty and was saved under 5 minutes ago.
ManifoldEffect(m) ==
    IF lsManifold.age = "lt5" /\ Len(m.markets) > 0 THEN m
    ELSE [m EXCEPT !.loading = TRUE, !.error = FALSE, !.fetch = @ + 1]

\* The state after a handler: the React state, the save effects (localStorage
\* is written when a list was set and is not empty) and the dashboard effect
\* (a preview fetch for each source whose list is empty, when the dashboard
\* shows and the page or the length of a list changed).
CommitAll(h, m, page, key, settled) ==
    /\ dataAge' = [kalshi |-> IF h.touched /\ Len(h.markets) > 0
                              THEN "lt5" ELSE dataAge.kalshi,
                   manifold |-> IF m.touched /\ Len(m.markets) > 0
                                THEN "lt5" ELSE dataAge.manifold]
    /\ manifoldMarkets' = m.markets
    /\ manifoldLoading' = m.loading
    /\ manifoldError' = m.error
    /\ manifoldFetch' = m.fetch
    /\ manifoldFetch' <= MaxManifoldFetch
    /\ lsManifold' = IF m.touched /\ Len(m.markets) > 0
                     THEN [markets |-> m.markets, age |-> "lt5"]
                     ELSE lsManifold
    /\ manifoldPreview' =
           IF /\ page = "dashboard" /\ Len(m.markets) = 0
              /\ \/ page # activePage
                 \/ Len(h.markets) # Len(kalshiMarkets)
                 \/ Len(m.markets) # Len(manifoldMarkets)
           THEN m.preview + 1 ELSE m.preview
    /\ manifoldPreview' <= MaxManifoldPreview
    /\ Len(h.markets) <= MaxMarkets
    /\ Len(h.sessions) <= IF h.markets = <<>> /\ lsKalshi.markets = <<>>
                           THEN MaxQuietSessions ELSE MaxSessions
    /\ kalshiMarkets' = h.markets
    /\ kalshiLoading' = h.loading
    /\ kalshiError' = h.error
    /\ kalshiStreaming' = h.streaming
    /\ kalshiScrapingDate' = h.scrapingDate
    /\ eventSourceRef' = h.ref
    /\ scrapingStartedRef' = h.started
    /\ sessions' = h.sessions
    /\ cleanupOf' = h.cleanupOf
    /\ activePage' = page
    /\ kalshiRefreshKey' = key
    /\ lsKalshi' = IF h.touched /\ Len(h.markets) > 0
                   THEN [markets |-> h.markets, fresh |-> TRUE]
                   ELSE lsKalshi
    /\ dashFetch' = IF /\ page = "dashboard" /\ Len(h.markets) = 0
                       /\ \/ page # activePage
                          \/ Len(h.markets) # Len(kalshiMarkets)
                          \/ Len(m.markets) # Len(manifoldMarkets)
                    THEN dashFetch - settled + 1 ELSE dashFetch - settled
    /\ dashFetch' <= MaxDashFetch
    /\ UNCHANGED <<mounted, mockMatches, rendered, kalshiGroups, filteredGroups,
                   compareData, cards>>
    /\ UNCHANGED <<fmtVars, relayVars, rtVars, libVars, apiVars>>

\* The source reported the markets of these ids in this step.
Reported(ids) == staleIds' = staleIds \ ids

\* The state after a handler of the Kalshi column.
Commit(h, page, key, settled) ==
    /\ CommitAll(h, Manifold, page, key, settled)
    /\ UNCHANGED kalshiRetry

HomeStart ==
    /\ mounted = FALSE
    /\ lsKalshi \in [markets : FetchLists, fresh : BOOLEAN]
    /\ kalshiLoading = FALSE
    /\ kalshiError = FALSE
    /\ kalshiStreaming = FALSE
    /\ kalshiScrapingDate = FALSE
    /\ kalshiRefreshKey = 0
    /\ eventSourceRef = 0
    /\ scrapingStartedRef = FALSE
    /\ sessions = <<>>
    /\ cleanupOf = 0
    /\ dashFetch = 0

\* The Manifold column at rest, with markets saved under 5 minutes ago.
ManifoldCached ==
    /\ manifoldLoading = FALSE
    /\ manifoldError = FALSE
    /\ lsManifold = [markets |-> <<MM("Arsenal", "Chelsea", 40)>>, age |-> "lt5"]
    /\ manifoldFetch = 0
    /\ manifoldPreview = 0
    /\ kalshiRetry = 0
    /\ staleIds = {}
    /\ dataAge = [kalshi |-> "none", manifold |-> "lt5"]

HomeInit ==
    /\ HomeStart
    /\ RenderIdle
    /\ FmtIdle
    /\ RelayIdle
    /\ RtIdle
    /\ LibIdle
    /\ ApiIdle
    /\ ManifoldCached

\* The effects of the first render: saved Kalshi markets are restored when
\* less than 5 minutes old and not empty, saved Manifold markets when less
\* than 10 minutes old and not empty (the save effects then write them back
\* with a new timestamp); the dashboard preview fetches start (the lists of
\* that render are empty).
Mount ==
    /\ ~mounted
    /\ mounted' = TRUE
    /\ kalshiMarkets' = IF lsKalshi.fresh /\ Len(lsKalshi.markets) > 0
                        THEN lsKalshi.markets ELSE kalshiMarkets
    /\ lsKalshi' = IF lsKalshi.fresh /\ Len(lsKalshi.markets) > 0
                   THEN [markets |-> lsKalshi.markets, fresh |-> TRUE]
                   ELSE lsKalshi
    /\ dashFetch' = 1
    /\ manifoldMarkets' = IF /\ lsManifold.age \in {"lt5", "lt10"}
                             /\ Len(lsManifold.markets) > 0
                          THEN lsManifold.markets ELSE manifoldMarkets
    /\ lsManifold' = IF /\ lsManifold.age \in {"lt5", "lt10"}
                        /\ Len(lsManifold.markets) > 0
                     THEN [markets |-> lsManifold.markets, age |-> "lt5"]
                     ELSE lsManifold
    /\ manifoldPreview' = 1
    /\ UNCHANGED <<kalshiLoading, kalshiError, kalshiStreaming, kalshiScrapingDate,
                   kalshiRefreshKey, eventSourceRef, scrapingStartedRef, sessions,
                   cleanupOf>>
    /\ UNCHANGED <<activePage, mockMatches, rendered, kalshiGroups, filteredGroups,
                   compareData, cards>>
    /\ UNCHANGED <<manifoldLoading, manifoldError, manifoldFetch, kalshiRetry,
                   staleIds, dataAge>>
    /\ UNCHANGED <<fmtVars, relayVars, rtVars, libVars, apiVars>>

\* The dashboard preview fetch settles: a non-empty result replaces the list.
DashFetchSettle ==
    /\ mounted
    /\ dashFetch > 0
    /\ \E data \in FetchLists :
         /\ Commit(IF data # <<>> THEN SetMarkets(Home, data) ELSE Home,
                   activePage, kalshiRefreshKey, 1)
         /\ Reported(Ids(data))

\* setActivePage(p) from the sidebar, and the Kalshi effect that follows.
SetActivePage ==
    /\ mounted
    /\ \E p \in Pages \ {activePage} :
         /\ Commit(KalshiEffect(Home, p, kalshiRefreshKey), p, kalshiRefreshKey, 0)
         /\ Reported({})

\* The Refresh button of the Kalshi column, and the Kalshi effect that follows.
ClickRefresh ==
    /\ mounted
    /\ activePage = "kalshi"
    /\ Commit(KalshiEffect([SetMarkets(Home, <<>>) EXCEPT
                               !.loading = TRUE, !.error = FALSE,
                               !.streaming = FALSE, !.scrapingDate = FALSE],
                           "kalshi", kalshiRefreshKey + 1),
              activePage, kalshiRefreshKey + 1, 0)
    /\ Reported({})

\* Step 2 of both branches: new EventSource, eventSourceRef.current = it.
OpenStream(h, s, fallback) ==
    [h EXCEPT !.streaming = TRUE, !.scrapingDate = TRUE, !.ref = s,
              !.sessions[s].es = "open", !.sessions[s].fallback = fallback,
              !.sessions[s].fetch = "settled",
              !.sessions[s].timeoutArmed = FALSE,
              !.sessions[s].safetyArmed = FALSE]

\* fetch(...).then: the initial markets replace the list when not empty, the
\* loading flag is cleared, the stream starts.
FetchResolveAs(s, data, err) ==
    /\ sessions[s].fetch = "pending"
    /\ err => data = <<>>
    /\ LET h1 == IF data # <<>>
                 THEN SetMarkets([Home EXCEPT !.sessions[s].seen =
                                                  @ \cup Ids(data)], data)
                 ELSE Home
           h2 == [h1 EXCEPT !.loading = FALSE,
                            !.error = IF err THEN TRUE ELSE @]
       IN  Commit(OpenStream(h2, s, FALSE), activePage, kalshiRefreshKey, 0)
    /\ Reported(Ids(data))

\* The initial fetch of a session resolves, with markets or with data.error.
FetchResolve ==
    \E s \in DOMAIN sessions, data \in FetchLists, err \in BOOLEAN :
        FetchResolveAs(s, data, err)

\* setTimeout(() => fetchController.abort(), 10000) fires.
FetchAbortTimer ==
    /\ \E s \in DOMAIN sessions :
         /\ sessions[s].timeoutArmed
         /\ sessions[s].fetch = "pending"
         /\ Commit([Home EXCEPT !.sessions[s].timeoutArmed = FALSE,
                                !.sessions[s].fetch = "aborted"],
                   activePage, kalshiRefreshKey, 0)
         /\ Reported({})

\* fetch(...).catch: network error or abort; the error is shown and the
\* stream starts with its own streamSeenIds.
FetchRejectAs(s) ==
    /\ sessions[s].fetch \in {"pending", "aborted"}
    /\ Commit(OpenStream([Home EXCEPT !.loading = FALSE, !.error = TRUE],
                         s, TRUE),
              activePage, kalshiRefreshKey, 0)
    /\ Reported({})

FetchReject == \E s \in DOMAIN sessions : FetchRejectAs(s)

\* The 15 second safety timeout fires (after the 10 second one).
SafetyTimeout ==
    /\ \E s \in DOMAIN sessions :
         /\ sessions[s].safetyArmed
         /\ ~sessions[s].timeoutArmed
         /\ Commit([Home EXCEPT !.loading = FALSE, !.scrapingDate = FALSE,
                                !.error = IF Len(Home.markets) = 0 THEN TRUE ELSE @,
                                !.sessions[s].safetyArmed = FALSE],
                   activePage, kalshiRefreshKey, 0)
         /\ Reported({})

\* The handler a session's EventSource runs on a message.
OnMessage(h, s, msg) ==
    IF h.sessions[s].fallback THEN FallbackOnMessage(h, s, msg)
    ELSE MainOnMessage(h, s, msg)

\* The open EventSource of session s delivers msg.
StreamMessageAs(s, msg) ==
    /\ sessions[s].es = "open"
    /\ Commit(OnMessage(Home, s, msg), activePage, kalshiRefreshKey, 0)
    /\ Reported(Ids(msg.markets))

\* An open EventSource delivers a message.
StreamMessage ==
    \E s \in DOMAIN sessions, msg \in StreamMessages : StreamMessageAs(s, msg)

\* An EventSource fires onerror: the browser has closed it for good, or is
\* reconnecting.
StreamError ==
    /\ \E s \in DOMAIN sessions, closed \in BOOLEAN :
         /\ sessions[s].es = "open"
         /\ Commit(OnError(IF closed THEN [Home EXCEPT !.sessions[s].es = "closed"]
                           ELSE Home),
                   activePage, kalshiRefreshKey, 0)
         /\ Reported({})

HomeNext ==
    \/ Mount
    \/ DashFetchSettle
    \/ SetActivePage
    \/ ClickRefresh
    \/ FetchResolve
    \/ FetchAbortTimer
    \/ FetchReject
    \/ SafetyTimeout
    \/ StreamMessage
    \/ StreamError

SpecHome == HomeInit /\ [][HomeNext]_vars

\* fetch() rejects once fetchController.abort() was called.
AbortRejects ==
    \E s \in DOMAIN sessions : sessions[s].fetch = "aborted" /\ FetchRejectAs(s)

\* The event loop runs every timer that stays armed and the catch handler
\* of an aborted fetch; nothing makes the server answer a pending fetch.
SpecHomeFair ==
    /\ HomeInit
    /\ [][HomeNext]_vars
    /\ WF_vars(FetchAbortTimer)
    /\ WF_vars(SafetyTimeout)
    /\ WF_vars(AbortRejects)

\* ------------------------------------------------------------------
\* Home: the Kalshi and the Manifold column side by side
\* ------------------------------------------------------------------

\* The sidebar button of the Manifold page, and the two effects that follow.
OpenManifoldPage ==
    /\ mounted
    /\ activePage # "manifold"
    /\ CommitAll(KalshiEffect(Home, "manifold", kalshiRefreshKey),
                 ManifoldEffect(Manifold), "manifold", kalshiRefreshKey, 0)
    /\ UNCHANGED <<kalshiRetry, staleIds>>

\* The Refresh button of the Manifold column, and the effect that follows.
ClickManifoldRefresh ==
    /\ mounted
    /\ activePage = "manifold"
    /\ CommitAll(Home,
                 ManifoldEffect([Manifold EXCEPT !.markets = <<>>, !.touched = TRUE,
                                                 !.loading = TRUE, !.error = FALSE]),
                 activePage, kalshiRefreshKey, 0)
    /\ UNCHANGED <<kalshiRetry, staleIds>>

\* The Retry buttons of the Manifold column, shown with an empty list.
ClickManifoldRetry ==
    /\ mounted
    /\ activePage = "manifold"
    /\ ~manifoldLoading
    /\ Len(manifoldMarkets) = 0
    /\ CommitAll(Home, [Manifold EXCEPT !.loading = TRUE, !.fetch = @ + 1],
                 activePage, kalshiRefreshKey, 0)
    /\ UNCHANGED <<kalshiRetry, staleIds>>

\* A fetch of /api/manifold/markets settles: failed is data.error with no
\* market, or a rejected promise.
ManifoldFetchSettleAs(data, failed) ==
    /\ manifoldFetch > 0
    /\ failed => data = <<>>
    /\ CommitAll(Home,
                 IF failed
                 THEN [Manifold EXCEPT !.error = TRUE, !.loading = FALSE,
                                       !.fetch = @ - 1]
                 ELSE [Manifold EXCEPT !.markets = data, !.touched = TRUE,
                                       !.error = FALSE, !.loading = FALSE,
                                       !.fetch = @ - 1],
                 activePage, kalshiRefreshKey, 0)
    /\ UNCHANGED <<kalshiRetry, staleIds>>

ManifoldFetchSettle ==
    \E data \in ManifoldLists, failed \in BOOLEAN :
        ManifoldFetchSettleAs(data, failed)

\* The dashboard preview fetch of Manifold settles: a non-empty result
\* replaces the list.
ManifoldPreviewSettle ==
    /\ mounted
    /\ manifoldPreview > 0
    /\ \E data \in ManifoldLists :
         CommitAll(Home,
                   IF data # <<>>
                   THEN [Manifold EXCEPT !.markets = data, !.touched = TRUE,
                                         !.preview = @ - 1]
                   ELSE [Manifold EXCEPT !.preview = @ - 1],
                   activePage, kalshiRefreshKey, 0)
    /\ UNCHANGED <<kalshiRetry, staleIds>>

\* The Retry buttons of the Kalshi column, shown with an empty list when no
\* scraping is announced: setKalshiLoading(true); fetch("/api/kalshi/markets").
ClickRetry ==
    /\ mounted
    /\ activePage = "kalshi"
    /\ ~kalshiLoading
    /\ Len(kalshiMarkets) = 0
    /\ ~kalshiScrapingDate
    /\ kalshiRetry < MaxRetry
    /\ CommitAll([Home EXCEPT !.loading = TRUE], Manifold, activePage,
                 kalshiRefreshKey, 0)
    /\ kalshiRetry' = kalshiRetry + 1
    /\ Reported({})

\* The state after the fetch of a Retry button settled: "error" is a response
\* with data.error, "rejected" a rejected promise.
RetryOutcome(h, outcome, data) ==
    IF outcome = "error"
    THEN [SetMarkets(h, <<>>) EXCEPT !.error = TRUE, !.loading = FALSE]
    ELSE IF outcome = "ok"
    THEN [SetMarkets(h, data) EXCEPT !.error = FALSE, !.loading = FALSE]
    ELSE [h EXCEPT !.error = TRUE, !.loading = FALSE]

RetrySettleAs(outcome, data) ==
    /\ kalshiRetry > 0
    /\ outcome # "ok" => data = <<>>
    /\ CommitAll(RetryOutcome(Home, outcome, data), Manifold, activePage,
                 kalshiRefreshKey, 0)
    /\ kalshiRetry' = kalshiRetry - 1
    /\ Reported(Ids(data))

\* The fetch of a Retry button settles.
RetrySettle ==
    \E outcome \in {"ok", "error", "rejected"}, data \in FetchLists :
        RetrySettleAs(outcome, data)

\* What localStorage can hold when the page loads.
SourcesInit ==
    /\ HomeStart
    /\ RenderIdle
    /\ FmtIdle
    /\ RelayIdle
    /\ RtIdle
    /\ LibIdle
    /\ ApiIdle
    /\ manifoldLoading = FALSE
    /\ manifoldError = FALSE
    /\ lsManifold \in
           {[markets |-> <<>>, age |-> "none"]}
           \cup { [markets |-> <<MM("Arsenal", "Chelsea", 40)>>, age |-> a] :
                    a \in Ages \ {"none"} }
    /\ manifoldFetch = 0
    /\ manifoldPreview = 0
    /\ kalshiRetry = 0
    /\ staleIds = {}
    /\ dataAge = [kalshi |-> "none", manifold |-> lsManifold.age]

SourcesNext ==
    \/ Mount
    \/ DashFetchSettle
    \/ SetActivePage
    \/ OpenManifoldPage
    \/ FetchResolve
    \/ FetchAbortTimer
    \/ FetchReject
    \/ SafetyTimeout
    \/ StreamMessage
    \/ StreamError
    \/ ClickRetry
    \/ RetrySettle
    \/ ClickManifoldRefresh
    \/ ClickManifoldRetry
    \/ ManifoldFetchSettle
    \/ ManifoldPreviewSettle

SpecSources == SourcesInit /\ [][SourcesNext]_vars

\* ------------------------------------------------------------------
\* Home: saved markets over time and page loads
\* ------------------------------------------------------------------

\* More than 5 minutes pass in which Kalshi reports nothing: the timers of
\* 10 and 15 seconds have fired or were cleared, every market known to the
\* page was last reported longer ago than the window, and so was
\* kalshiMarketsTimestamp written.
WindowElapses ==
    /\ mounted
    /\ \A s \in DOMAIN sessions :
           ~sessions[s].timeoutArmed /\ ~sessions[s].safetyArmed
    /\ staleIds' = staleIds \cup Ids(kalshiMarkets) \cup Ids(lsKalshi.markets)
    /\ dataAge' = [kalshi |-> IF dataAge.kalshi = "none" THEN "none" ELSE "old",
                   manifold |-> Older(dataAge.manifold)]
    /\ lsKalshi' = [lsKalshi EXCEPT !.fresh = FALSE]
    /\ lsManifold' = [lsManifold EXCEPT !.age = Older(@)]
    /\ UNCHANGED <<mounted, kalshiLoading, kalshiError, kalshiStreaming,
                   kalshiScrapingDate, kalshiRefreshKey, eventSourceRef,
                   scrapingStartedRef, sessions, cleanupOf, dashFetch>>
    /\ UNCHANGED <<manifoldLoading, manifoldError, manifoldFetch, manifoldPreview,
                   kalshiRetry>>
    /\ UNCHANGED <<renderVars, fmtVars, relayVars, rtVars, libVars, apiVars>>

\* The page is loaded again: the state of useState and useRef starts over,
\* EventSources and requests of the old page are gone, localStorage stays.
Reload ==
    /\ mounted
    /\ mounted' = FALSE
    /\ kalshiLoading' = FALSE
    /\ kalshiError' = FALSE
    /\ kalshiStreaming' = FALSE
    /\ kalshiScrapingDate' = FALSE
    /\ kalshiRefreshKey' = 0
    /\ eventSourceRef' = 0
    /\ scrapingStartedRef' = FALSE
    /\ sessions' = <<>>
    /\ cleanupOf' = 0
    /\ dashFetch' = 0
    /\ activePage' = "dashboard"
    /\ kalshiMarkets' = <<>>
    /\ manifoldMarkets' = <<>>
    /\ manifoldLoading' = FALSE
    /\ manifoldError' = FALSE
    /\ manifoldFetch' = 0
    /\ manifoldPreview' = 0
    /\ kalshiRetry' = 0
    /\ UNCHANGED <<lsKalshi, lsManifold, staleIds, dataAge>>
    /\ UNCHANGED <<mockMatches, rendered, kalshiGroups, filteredGroups,
                   compareData, cards>>
    /\ UNCHANGED <<fmtVars, relayVars, rtVars, libVars, apiVars>>

\* The markets saved longer ago than the window were last reported longer
\* ago than the window.
StaleInit ==
    /\ HomeStart
    /\ RenderIdle
    /\ FmtIdle
    /\ RelayIdle
    /\ RtIdle
    /\ LibIdle
    /\ ApiIdle
    /\ manifoldLoading = FALSE
    /\ manifoldError = FALSE
    /\ lsManifold = [markets |-> <<MM("Arsenal", "Chelsea", 40)>>, age |-> "lt5"]
    /\ manifoldFetch = 0
    /\ manifoldPreview = 0
    /\ kalshiRetry = 0
    /\ staleIds = IF lsKalshi.fresh THEN {} ELSE Ids(lsKalshi.markets)
    /\ dataAge = [kalshi |-> IF lsKalshi.markets = <<>> THEN "none"
                             ELSE IF lsKalshi.fresh THEN "lt5" ELSE "old",
                  manifold |-> "lt5"]

StaleNext ==
    \/ Mount
    \/ DashFetchSettle
    \/ SetActivePage
    \/ FetchResolve
    \/ FetchAbortTimer
    \/ FetchReject
    \/ SafetyTimeout
    \/ StreamMessage
    \/ StreamError
    \/ WindowElapses
    \/ Reload

SpecStale == StaleInit /\ [][StaleNext]_vars

\* ------------------------------------------------------------------
\* Real-time view (RealtimeKalshiUpdates.tsx)
\* ------------------------------------------------------------------

\* Most market_update messages one mount receives.
MaxUpdates == 3

\* setUpdates keeps the newest entries only: slice(0, 50).
KeptUpdates == 50

RtTimestamps == {1, 2}

\* pricing.current_price in hundredths of a dollar; <<>> is null.
RtPrices == {None, Some(0), Some(42)}

\* The status messages: the relay's own two, and a producer line that
\* reports the opened socket.
RtStatusTexts ==
    {"Connecting to Kalshi WebSocket...", "WebSocket connection opened",
     "WebSocket connection closed"}

\* message.includes(word) on the status texts above.
Includes(message, word) ==
    \/ word = "opened" /\ message = "WebSocket connection opened"
    \/ word = "closed" /\ message = "WebSocket connection closed"

\* The parsed SSE messages; hasData is whether the data field is present,
\* parses is whether JSON.parse accepts event.data.
RtMsg(type, hasData, ticker, timestamp, price, message, parses) ==
    [type |-> type, hasData |-> hasData, ticker |-> ticker,
     timestamp |-> timestamp, current_price |-> price, message |-> message,
     parses |-> parses]

RtUpdateMessages ==
    { RtMsg("market_update", TRUE, t, ts, p, "", TRUE) :
        t \in RtTickers, ts \in RtTimestamps, p \in RtPrices }

RtMessages ==
    RtUpdateMessages
    \cup { RtMsg("market_update", FALSE, "", 1, None, "", TRUE) }
    \cup { RtMsg("status", FALSE, "", 1, None, m, TRUE) : m \in RtStatusTexts }
    \cup { RtMsg("error", FALSE, "", 1, None, m, TRUE) : m \in {"", "boom"} }
    \cup { RtMsg("raw", FALSE, "", 1, None, "x", TRUE),
           RtMsg("", FALSE, "", 1, None, "", FALSE) }

\* previousPrice || null: undefined and 0 both become null.
OrNull(o) == IF IsDefined(o) /\ Val(o) # 0 THEN o ELSE None

\* A slice that keeps the whole list.
SliceAll(seq, n) == seq

\* prev.slice(0, n)
Slice(seq, n) == SubSeq(seq, 1, IF Len(seq) < n THEN Len(seq) ELSE n)

\* updateWithId, lines 76-80.
UpdateWithId(msg, previousPrice) ==
    [ticker |-> msg.ticker, timestamp |-> msg.timestamp,
     current_price |-> msg.current_price,
     id |-> msg.ticker \o "-" \o ToString(msg.timestamp),
     previousPrice |-> OrNull(previousPrice)]

\* latestByTicker after the first n entries of the list: an entry replaces the
\* one held for its ticker only when its timestamp is strictly greater.
RECURSIVE LatestByTicker(_, _)
LatestByTicker(ups, n) ==
    IF n = 0 THEN [t \in {} |-> 0]
    ELSE LET m == LatestByTicker(ups, n - 1)
             u == ups[n]
         IN  IF u.ticker \notin DOMAIN m \/ u.timestamp > m[u.ticker].timestamp
             THEN [t \in DOMAIN m \cup {u.ticker} |->
                      IF t = u.ticker THEN u ELSE m[t]]
             ELSE m

\* The entry displayed for each ticker.
Displayed == LatestByTicker(updates, Len(updates))

\* useEffect(..., []) on mount: fresh state, new EventSource('/api/kalshi/stream').
RtMount ==
    /\ ~rtMounted
    /\ rtMounted' = TRUE
    /\ updates' = <<>>
    /\ connectionStatus' = "connecting"
    /\ errorMessage' = ""
    /\ priceHistoryRef' = [t \in RtTickers |-> None]
    /\ eventSource' = "connecting"
    /\ received' = <<>>
    /\ UNCHANGED <<renderVars, fmtVars, relayVars, homeVars, srcVars, libVars, apiVars>>

\* eventSource.onopen
RtOnOpen ==
    /\ eventSource = "connecting"
    /\ eventSource' = "open"
    /\ connectionStatus' = "connected"
    /\ errorMessage' = ""
    /\ UNCHANGED <<rtMounted, updates, priceHistoryRef, received>>
    /\ UNCHANGED <<renderVars, fmtVars, relayVars, homeVars, srcVars, libVars, apiVars>>

\* The state eventSource.onmessage reads and writes, as one record.
Rt ==
    [updates |-> updates, priceHistoryRef |-> priceHistoryRef,
     connectionStatus |-> connectionStatus, errorMessage |-> errorMessage]

\* eventSource.onmessage, lines 61-101: the state after the handler ran on msg
\* in state st.
RtAfter(st, msg) ==
    IF ~msg.parses THEN st
    ELSE IF msg.type = "market_update" /\ msg.hasData
    THEN [st EXCEPT
            !.priceHistoryRef =
                IF IsDefined(msg.current_price)
                THEN [@ EXCEPT ![msg.ticker] = msg.current_price]
                ELSE @,
            !.updates =
                Slice(<<UpdateWithId(msg, st.priceHistoryRef[msg.ticker])>> \o @,
                      KeptUpdates)]
    ELSE IF msg.type = "status"
    THEN [st EXCEPT !.connectionStatus =
                IF Includes(msg.message, "opened") THEN "connected"
                ELSE IF Includes(msg.message, "closed") THEN "disconnected"
                ELSE @]
    ELSE IF msg.type = "error"
    THEN [st EXCEPT !.connectionStatus = "error",
                    !.errorMessage = OrStr(msg.message, "An error occurred")]
    ELSE st

RtHandle(msg) ==
    LET after == RtAfter(Rt, msg) IN
    /\ updates' = after.updates
    /\ priceHistoryRef' = after.priceHistoryRef
    /\ connectionStatus' = after.connectionStatus
    /\ errorMessage' = after.errorMessage

\* A market update arrives while fewer than MaxUpdates were received, or
\* less than MaxUpdates ago the list was one entry short of full.
UpdatesLeft ==
    \/ Len(received) < MaxUpdates
    \/ KeptUpdates - 1 <= Len(received) /\ Len(received) < KeptUpdates - 1 + MaxUpdates

\* A message that carries a market update.
IsUpdate(msg) == msg.parses /\ msg.type = "market_update" /\ msg.hasData

RtOnMessage ==
    /\ eventSource = "open"
    /\ \E msg \in RtMessages :
        /\ (msg.type = "market_update" /\ msg.hasData) => UpdatesLeft
        /\ RtHandle(msg)
        /\ received' = IF IsUpdate(msg)
                       THEN <<UpdateWithId(msg, priceHistoryRef[msg.ticker])>>
                                \o received
                       ELSE received
    /\ UNCHANGED <<rtMounted, eventSource>>
    /\ UNCHANGED <<renderVars, fmtVars, relayVars, homeVars, srcVars, libVars, apiVars>>

\* eventSource.onerror, lines 103-107.
RtOnError ==
    /\ eventSource \in {"connecting", "open"}
    /\ connectionStatus' = "disconnected"
    /\ eventSource' = "closed"
    /\ UNCHANGED <<rtMounted, updates, priceHistoryRef, errorMessage, received>>
    /\ UNCHANGED <<renderVars, fmtVars, relayVars, homeVars, srcVars, libVars, apiVars>>

\* A cleanup that leaves the EventSource as it is.
CleanupKeep(es) == es

\* eventSource.close() of the cleanup, line 111.
CleanupClose(es) == "closed"

\* The effect cleanup on unmount, lines 110-113.
RtUnmount ==
    /\ rtMounted
    /\ rtMounted' = FALSE
    /\ eventSource' = CleanupClose(eventSource)
    /\ UNCHANGED <<updates, connectionStatus, errorMessage, priceHistoryRef,
                   received>>
    /\ UNCHANGED <<renderVars, fmtVars, relayVars, homeVars, srcVars, libVars, apiVars>>

RtNext == RtMount \/ RtOnOpen \/ RtOnMessage \/ RtOnError \/ RtUnmount

RtInit ==
    /\ RtIdle
    /\ LibIdle
    /\ ApiIdle
    /\ SrcIdle
    /\ RenderIdle
    /\ FmtIdle
    /\ RelayIdle
    /\ HomeIdle

SpecRealtime == RtInit /\ [][RtNext]_vars

\* The n-th market update of a feed that alternates between the two tickers.
FedMsg(n) ==
    RtMsg("market_update", TRUE, IF n % 2 = 0 THEN "T2" ELSE "T1", n, Some(42),
          "", TRUE)

\* The list after the first n updates of that feed were handled on a new
\* mount: newest first, the previous price absent on each ticker's first.
FedList(n) ==
    [i \in 1..n |->
        UpdateWithId(FedMsg(n + 1 - i),
                     IF n + 1 - i > 2 THEN Some(42) ELSE None)]

\* A mounted, connected view whose list is one entry short of full.
FeedInit ==
    /\ rtMounted = TRUE
    /\ eventSource = "open"
    /\ updates = FedList(KeptUpdates - 1)
    /\ received = FedList(KeptUpdates - 1)
    /\ priceHistoryRef = [t \in RtTickers |-> Some(42)]
    /\ connectionStatus = "connected"
    /\ errorMessage = ""
    /\ LibIdle
    /\ ApiIdle
    /\ SrcIdle
    /\ RenderIdle
    /\ FmtIdle
    /\ RelayIdle
    /\ HomeIdle

SpecFeed == FeedInit /\ [][RtNext]_vars

\* ------------------------------------------------------------------
\* Claims on the SSE relay
\* ------------------------------------------------------------------

\* The stdout bytes delivered to the 'data' handler so far.
Delivered == SubSeq(written, 1, Len(written) - Len(procOut))

\* The messages enqueued from stdout, in order.
StdoutSent == SelectSeq(sse.enqueued, LAMBDA m : m.from = "stdout")

\* The text between the newline at position i of d and the newline before it.
LineEndingAt(d, i) ==
    LET before == { j \in 1..(i - 1) : d[j] = NL }
        start == IF before = {} THEN 1 ELSE SetMax(before) + 1
    IN  SubSeq(d, start, i - 1)

RECURSIVE WrittenLines(_, _)
\* The complete (newline-terminated) lines of d, in the order written.
WrittenLines(d, i) ==
    IF i > Len(d) THEN <<>>
    ELSE IF d[i] = NL THEN <<LineEndingAt(d, i)>> \o WrittenLines(d, i + 1)
    ELSE WrittenLines(d, i + 1)

NonBlank(line) == \E i \in DOMAIN line : line[i] \notin Blank

Bodies(msgs) == [i \in DOMAIN msgs |-> msgs[i].body]

Forwarded(line) ==
    NonBlank(line) /\ (route = "stream" \/ IsJSON(Trim(line)))

SwapTeams(m) ==
    [m EXCEPT !.ticker_info.team1 = m.ticker_info.team2,
              !.ticker_info.team2 = m.ticker_info.team1,
              !.ticker_info.team1_full = m.ticker_info.team2_full,
              !.ticker_info.team2_full = m.ticker_info.team1_full]

\* C1: the match key is order-independent: for every market rendered, the
\* Kalshi grouping key and the compare key of (A, B, d) equal those of
\* (B, A, d).
C1_KeyOrderIndependent ==
    rendered =>
        /\ \A i \in DOMAIN kalshiMarkets :
             /\ KalshiMatchKey(kalshiMarkets[i])
                    = KalshiMatchKey(SwapTeams(kalshiMarkets[i]))
             /\ CompareKey(KalshiTeam1(kalshiMarkets[i]), KalshiTeam2(kalshiMarkets[i]))
                    = CompareKey(KalshiTeam2(kalshiMarkets[i]), KalshiTeam1(kalshiMarkets[i]))
        /\ \A j \in DOMAIN manifoldMarkets :
             CompareKey(manifoldMarkets[j].team1, manifoldMarkets[j].team2)
                 = CompareKey(manifoldMarkets[j].team2, manifoldMarkets[j].team1)

\* The probabilities of the sources present in a compare record: TUMfoolery,
\* then Kalshi and Manifold when defined.
PresentProbs(rec) == <<rec.tumfooleryProb>> \o rec.kalshiProb \o rec.manifoldProb

\* max |p_i - p_j| over all pairs of present sources (0 when there is no pair).
PairwiseMax(ps) ==
    SetMax({0} \cup { Abs(ps[i] - ps[j]) : i, j \in DOMAIN ps })

\* C7: maxDiscrepancy of a card equals the maximum of |p_i - p_j| over all
\* pairs of sources present for that match.
C7_MaxDiscrepancyIsPairwiseMax ==
    (rendered /\ activePage = "compare") =>
        /\ Len(cards) = Len(compareData)
        /\ \A i \in DOMAIN cards :
             cards[i].maxDiscrepancy = PairwiseMax(PresentProbs(compareData[i]))

\* C7 witness: a card with all three sources whose largest gap is the
\* Kalshi-Manifold pair.
C7_Witness ==
    /\ rendered
    /\ \E i \in DOMAIN cards :
         LET r == compareData[i] IN
         /\ IsDefined(r.kalshiProb) /\ IsDefined(r.manifoldProb)
         /\ cards[i].maxDiscrepancy = Abs(Val(r.kalshiProb) - Val(r.manifoldProb))
         /\ cards[i].maxDiscrepancy > Abs(r.tumfooleryProb - Val(r.kalshiProb))
         /\ cards[i].maxDiscrepancy > Abs(r.tumfooleryProb - Val(r.manifoldProb))

\* C8: a match present in only one source (Kalshi-only or Manifold-only, no
\* TUMfoolery match) has maxDiscrepancy 0 and is not flagged.
C8_SingleSourceZero ==
    rendered =>
        \A i \in DOMAIN cards :
            LET r == compareData[i] IN
            (~r.fromMock /\ (IsDefined(r.kalshiProb) # IsDefined(r.manifoldProb)))
                => /\ cards[i].maxDiscrepancy = 0
                   /\ ~cards[i].hasSignificantDiscrepancy

OpenSessions == { s \in DOMAIN sessions : sessions[s].es = "open" }

DataMessages ==
    { msg \in StreamMessages :
        msg.type \in {"market_update", "initial_batch", "final_batch"} }

\* C2: after any sequence of Kalshi events the market list holds at most one
\* entry per market id (market_id, or ticker when market_id is absent).
C2_OneEntryPerMarketId ==
    \A i, j \in DOMAIN kalshiMarkets :
        i # j => MarketId(kalshiMarkets[i]) # MarketId(kalshiMarkets[j])

\* C3: processing the same market_update or batch message twice in the stream
\* handler leaves the market list equal to the list after processing it once.
C3_IngestIdempotent ==
    \A s \in OpenSessions : \A msg \in DataMessages :
        OnMessage(OnMessage(Home, s, msg), s, msg).markets
            = OnMessage(Home, s, msg).markets

\* C5: within one scraping session every market delivered by a batch or a
\* market_update is in the list afterwards, and a market_update ends with its
\* payload stored under its id.
C5_NoUpdateDropped ==
    \A s \in OpenSessions : \A msg \in DataMessages :
        LET after == OnMessage(Home, s, msg).markets IN
        \A k \in DOMAIN msg.markets :
            /\ MarketId(msg.markets[k]) \in Ids(after)
            /\ msg.type = "market_update" =>
                   \E i \in DOMAIN after : after[i] = msg.markets[k]

\* ------------------------------------------------------------------
\* Claims on the real-time view
\* ------------------------------------------------------------------

\* The newest-first position of the update received last for a ticker.
LastReceived(t) ==
    CHOOSE i \in DOMAIN updates :
        /\ updates[i].ticker = t
        /\ \A j \in DOMAIN updates : updates[j].ticker = t => i <= j

\* C4: the entry displayed for a ticker is the payload of the update that was
\* received last for it, whatever the timestamps inside the payloads say.
C4_LastReceivedDisplayed ==
    \A t \in DOMAIN Displayed : Displayed[t] = updates[LastReceived(t)]

\* ------------------------------------------------------------------
\* Claims on the comparison across sources
\* ------------------------------------------------------------------

\* The club a team code or a team name stands for.
TeamName(t) ==
    IF t \in {"ARS", "Arsenal"} THEN "Arsenal"
    ELSE IF t \in {"CHE", "Chelsea"} THEN "Chelsea"
    ELSE t

\* The fixture (unordered pair of clubs) a market or a record is about.
KalshiFixture(m) == {TeamName(m.ticker_info.team1), TeamName(m.ticker_info.team2)}
TeamsFixture(r) == {TeamName(r.team1), TeamName(r.team2)}

\* C11: a Kalshi market and a Manifold market of the same fixture are joined
\* into exactly one comparison record, which carries both probabilities.
C11_OneRecordPerFixture ==
    (rendered /\ activePage = "compare") =>
        \A i \in DOMAIN kalshiMarkets, j \in DOMAIN manifoldMarkets :
            KalshiFixture(kalshiMarkets[i]) = TeamsFixture(manifoldMarkets[j]) =>
                LET recs == { r \in DOMAIN compareData :
                                TeamsFixture(compareData[r])
                                    = KalshiFixture(kalshiMarkets[i]) }
                IN  /\ Cardinality(recs) = 1
                    /\ \A r \in recs :
                          /\ IsDefined(compareData[r].kalshiProb)
                          /\ IsDefined(compareData[r].manifoldProb)

\* ------------------------------------------------------------------
\* Claims on lines and messages that do not parse
\* ------------------------------------------------------------------

\* The complete, non-blank lines delivered so far that are not valid JSON.
NotJSON(line) == NonBlank(line) /\ ~IsJSON(Trim(line))
NonJSONLines == SelectSeq(WrittenLines(Delivered, 1), NotJSON)

\* The raw messages enqueued so far, in order.
IsRaw(m) == m.type = "raw"
RawSent == SelectSeq(StdoutSent, IsRaw)

\* States of the real-time view and of a Home page with one streaming session.
RtStates ==
    [updates : SeqsUpTo({ UpdateWithId(m, None) : m \in RtUpdateMessages }, 1),
     priceHistoryRef : [RtTickers -> {None, Some(42)}],
     connectionStatus : {"connecting", "connected", "disconnected", "error"},
     errorMessage : {"", "boom"}]

HomeStates ==
    { [markets |-> l, touched |-> FALSE, loading |-> FALSE, error |-> FALSE,
       streaming |-> TRUE, scrapingDate |-> TRUE, ref |-> 1, started |-> TRUE,
       sessions |-> <<[NewSession(l) EXCEPT !.es = "open", !.fetch = "settled",
                                            !.timeoutArmed = FALSE,
                                            !.safetyArmed = FALSE,
                                            !.fallback = f]>>,
       cleanupOf |-> 1] :
        l \in FetchLists, f \in BOOLEAN }

\* A raw message leaves the consumer's state as it was.
ConsumersIgnoreRaw ==
    /\ \A st \in RtStates : \A msg \in RtMessages :
           msg.type = "raw" => RtAfter(st, msg) = st
    /\ \A h \in HomeStates : \A msg \in StreamMessages :
           msg.type = "raw" => OnMessage(h, 1, msg) = h

\* C12: every stdout line that is not valid JSON is forwarded as a raw message
\* carrying the original line, and a raw message changes nothing at the
\* consumer.
C12_NonJSONForwardedAsRaw ==
    ~sse.isClosed =>
        /\ RawSent = [i \in DOMAIN NonJSONLines |->
                         [from |-> "stdout", type |-> "raw", body |-> NonJSONLines[i]]]
        /\ ConsumersIgnoreRaw

\* C12 as amended: on the stream route every non-blank line that is not valid
\* JSON is forwarded as a raw message carrying the trimmed line; the
\* markets-stream route forwards no such line; a raw message changes nothing
\* at the consumer.
C12_RawOnStreamRoute ==
    ~sse.isClosed =>
        /\ route = "stream" =>
               RawSent = [i \in DOMAIN NonJSONLines |->
                             [from |-> "stdout", type |-> "raw",
                              body |-> Trim(NonJSONLines[i])]]
        /\ route = "markets-stream" => RawSent = <<>>
        /\ ConsumersIgnoreRaw

\* C12 witness: the stream route has forwarded a line with a blank at one end
\* as a raw message.
C12_Witness ==
    /\ ~sse.isClosed
    /\ route = "stream"
    /\ Len(RawSent) = 1
    /\ NonJSONLines[1] # Trim(NonJSONLines[1])

\* The complete lines delivered so far that parse, and the messages they were
\* forwarded as.
ParsesAsJSON(line) == IsJSON(Trim(line))
JSONLines == SelectSeq(WrittenLines(Delivered, 1), ParsesAsJSON)
IsParsed(m) == m.type = "json"

\* The lines one chunk can complete.
ChunkLines == SeqsUpTo({<<"x">>, <<"1">>, <<" ", "1">>, <<"x", " ">>}, 3)
OpenController == [isClosed |-> FALSE, open |-> TRUE, enqueued |-> <<>>, closeCalls |-> 0]

\* The for loop over the lines of one chunk goes on after a line that does
\* not parse: every line of the chunk that parses is sent.
LoopSurvivesBadLine ==
    \A r \in {"stream", "markets-stream"} : \A lines \in ChunkLines :
        SelectSeq(ForwardLines(r, OpenController, lines, 1).enqueued, IsParsed)
            = [i \in DOMAIN SelectSeq(lines, ParsesAsJSON) |->
                  LineMessage(Trim(SelectSeq(lines, ParsesAsJSON)[i]))]

\* A message that JSON.parse rejects changes nothing at the consumer, and the
\* next message is handled as if the bad one had not arrived.
ConsumersSurviveBadMessage ==
    /\ \A st \in RtStates : \A bad \in RtMessages :
           ~bad.parses =>
               /\ RtAfter(st, bad) = st
               /\ \A msg \in RtMessages :
                      RtAfter(RtAfter(st, bad), msg) = RtAfter(st, msg)
    /\ \A h \in HomeStates : \A bad \in StreamMessages :
           bad.type = "invalid" =>
               /\ OnMessage(h, 1, bad) = h
               /\ \A msg \in StreamMessages :
                      OnMessage(OnMessage(h, 1, bad), 1, msg) = OnMessage(h, 1, msg)

\* C13: a record that does not parse never aborts the processing of later
\* records: in the relay every line that parses is forwarded, in order,
\* whatever lines precede it in its chunk or in the stream; at the clients a
\* message that does not parse changes nothing and later messages are handled.
C13_BadRecordDoesNotAbort ==
    /\ ~sse.isClosed =>
           SelectSeq(StdoutSent, IsParsed)
               = [i \in DOMAIN JSONLines |-> LineMessage(Trim(JSONLines[i]))]
    /\ LoopSurvivesBadLine
    /\ ConsumersSurviveBadMessage

\* C13 witness: a line that does not parse was followed by a line that
\* parses, and the second has been forwarded.
C13_Witness ==
    /\ ~sse.isClosed
    /\ Len(WrittenLines(Delivered, 1)) = 2
    /\ NotJSON(WrittenLines(Delivered, 1)[1])
    /\ ParsesAsJSON(WrittenLines(Delivered, 1)[2])
    /\ Len(SelectSeq(StdoutSent, IsParsed)) = 1

\* ------------------------------------------------------------------
\* Claims on failures of a source
\* ------------------------------------------------------------------

\* A closed / inactivity status or an error message of the producer.
IsDisconnect(msg) ==
    \/ msg.type = "error"
    \/ msg.type = "status" /\ msg.kind \in {"stopping", "closed"}

\* The streaming flags are cleared and the session's EventSource is closed.
Stopped(h, s) ==
    /\ ~h.streaming
    /\ ~h.scrapingDate
    /\ h.sessions[s].es = "closed"

\* C14: when a Kalshi stream delivers a closed / inactivity status or an error
\* message, or its EventSource fires onerror after the connection was lost
\* for good, the streaming flags are cleared and the connection is closed,
\* and the market list is left unchanged.
C14_DisconnectKeepsData ==
    \A s \in OpenSessions :
        /\ \A msg \in StreamMessages :
               IsDisconnect(msg) =>
                   /\ Stopped(OnMessage(Home, s, msg), s)
                   /\ OnMessage(Home, s, msg).markets = kalshiMarkets
        /\ Stopped(OnError([Home EXCEPT !.sessions[s].es = "closed"]), s)
        /\ OnError([Home EXCEPT !.sessions[s].es = "closed"]).markets = kalshiMarkets

\* The EventSources of the sessions other than s are in h as they are now.
OthersUntouched(h, s) ==
    \A t \in DOMAIN sessions \ {s} : h.sessions[t].es = sessions[t].es

\* C25: a status, an error message or an onerror event of one session never
\* closes the EventSource of another session, and kalshiStreaming is true
\* only while the EventSource eventSourceRef points to is open.
C25_SessionsIsolated ==
    /\ \A s \in OpenSessions :
           /\ \A msg \in StreamMessages :
                  msg.type \in {"status", "error"} =>
                      OthersUntouched(OnMessage(Home, s, msg), s)
           /\ OthersUntouched(OnError([Home EXCEPT !.sessions[s].es = "closed"]), s)
           /\ OthersUntouched(OnError(Home), s)
    /\ kalshiStreaming =>
           eventSourceRef # 0 /\ sessions[eventSourceRef].es = "open"

\* C26: entering the Kalshi page starts a session only when none was started
\* before (ClickRefresh is the other step that starts one), so a page load
\* has at most one session besides one per click of Refresh.
C26_OneSessionPerRefresh ==
    /\ [][(SetActivePage /\ Len(sessions') > Len(sessions)) =>
              ~scrapingStartedRef]_vars
    /\ [](Len(sessions) <= 1 + kalshiRefreshKey)

\* C27: whenever kalshiLoading is true it eventually becomes false, also
\* when the user leaves the page or clicks Refresh before the fetch settled.
C27_LoadingEventuallyClears ==
    kalshiLoading ~> ~kalshiLoading

\* A step in which the Kalshi HTTP fetch fails.
KalshiFetchFails ==
    \/ \E s \in DOMAIN sessions : FetchResolveAs(s, <<>>, TRUE)
    \/ FetchReject
    \/ \E outcome \in {"error", "rejected"} : RetrySettleAs(outcome, <<>>)

\* A step in which the Kalshi stream fails.
KalshiStreamFails ==
    \/ \E s \in DOMAIN sessions, msg \in StreamMessages :
          IsDisconnect(msg) /\ StreamMessageAs(s, msg)
    \/ StreamError

\* A step in which the Manifold fetch fails.
ManifoldFetchFails == ManifoldFetchSettleAs(<<>>, TRUE)

\* C15: a step in which one source fails leaves the other source's market
\* list, loading flag and error state as they were, and a failing fetch of a
\* source never turns that source's non-empty market list into an empty one.
C15_SourcesFailIndependently ==
    [][/\ (KalshiFetchFails \/ KalshiStreamFails) =>
              UNCHANGED <<manifoldMarkets, manifoldLoading, manifoldError>>
       /\ ManifoldFetchFails =>
              UNCHANGED <<kalshiMarkets, kalshiLoading, kalshiError>>
       /\ (KalshiFetchFails /\ kalshiMarkets # <<>>) => kalshiMarkets' # <<>>
       /\ (ManifoldFetchFails /\ manifoldMarkets # <<>>) =>
              manifoldMarkets' # <<>>]_vars

\* ------------------------------------------------------------------
\* Claims on the age of entries
\* ------------------------------------------------------------------

\* C16: once the load effect has dropped what is older than the window, no
\* Kalshi market on the list was last reported by Kalshi longer ago than the
\* window.
C16_StaleEntriesEvicted ==
    [][Mount => Ids(kalshiMarkets') \cap staleIds' = {}]_vars


\* C22: what the load effect restores from localStorage was obtained from its
\* source less than 5 minutes ago for Kalshi and less than 10 minutes ago
\* for Manifold, after any sequence of page loads, restores and saves.
C22_CachedDataWithinWindow ==
    [][Mount =>
       /\ (lsKalshi.fresh /\ Len(lsKalshi.markets) > 0) => dataAge.kalshi = "lt5"
       /\ (lsManifold.age \in {"lt5", "lt10"} /\ Len(lsManifold.markets) > 0) =>
              dataAge.manifold \in {"lt5", "lt10"}]_vars

\* ------------------------------------------------------------------
\* Claims on cancellation
\* ------------------------------------------------------------------

\* C17: once the client has disconnected, the subprocess has been sent
\* SIGTERM and the controller is closed, and no later stdout, stderr, exit or
\* error event enqueues a message.
C17_AbortTearsDown ==
    /\ [](proc.killed => sse.isClosed /\ ~sse.open)
    /\ [][proc.killed => sse'.enqueued = sse.enqueued]_vars

\* The client disconnected while the stream was open, and stderr data and the
\* exit event arrived afterwards: no message of theirs was enqueued.
C17_Witness ==
    /\ proc.killed
    /\ proc.exitFired
    /\ stderrSeen
    /\ written # <<>>
    /\ procOut = <<>>
    /\ sse.closeCalls = 1
    /\ \A i \in DOMAIN sse.enqueued :
           sse.enqueued[i].from \notin {"exit", "error", "stderr"}

\* The terminal message of the exit handler is on the stream.
ExitSent == \E i \in DOMAIN sse.enqueued : sse.enqueued[i].from = "exit"

\* C23: when the exit handler has sent its terminal message, every complete
\* line the subprocess wrote to stdout before it exited has been forwarded,
\* and the terminal message is the last message of the stream, whatever the
\* order in which the 'data' and 'exit' events were delivered.
C23_LinesBeforeTerminalMessage ==
    ExitSent =>
        /\ sse.enqueued[Len(sse.enqueued)].from = "exit"
        /\ StdoutSent
             = [i \in DOMAIN SelectSeq(WrittenLines(written, 1), Forwarded) |->
                   LineMessage(Trim(SelectSeq(WrittenLines(written, 1), Forwarded)[i]))]

\* C24: controller.close() is invoked at most once per stream; once isClosed
\* is true it stays true, and no later sendSSE or closeController enqueues a
\* message or calls close(): the controller is left exactly as it is.
C24_ClosedOnceThenSilent ==
    /\ [](sse.closeCalls <= 1)
    /\ [][sse.isClosed => sse' = sse]_vars

\* The error, abort and exit handlers have all run closeController, stderr
\* data and stdout data arrived after the close, and close() was called once.
C24_Witness ==
    /\ proc.errorFired
    /\ proc.killed
    /\ proc.exitFired
    /\ stderrSeen
    /\ written # <<>>
    /\ procOut = <<>>
    /\ sse.closeCalls = 1

\* C28: the update list never holds more than 50 entries and consists of
\* the 50 most recently received market updates, newest first; status,
\* error, raw and unparseable messages add no entry.
C28_NewestFiftyKept ==
    /\ Len(updates) <= KeptUpdates
    /\ updates = SubSeq(received, 1,
                        IF Len(received) < KeptUpdates THEN Len(received)
                        ELSE KeptUpdates)

\* More than 50 updates were received, the list is full, and an error
\* message was handled on the full list.
C28_Witness ==
    /\ Len(received) = KeptUpdates + 2
    /\ Len(updates) = KeptUpdates
    /\ connectionStatus = "error"
    /\ updates[1].ticker = "T2"

\* C29: every bet was created for a signed-in user whose request had all its
\* fields and who had a wallet when the request looked it up; the bet has
\* status "pending" and carries that address; a request without a session,
\* with a field missing or of a user without a wallet is answered with an
\* error and creates no bet.
C29_BetNeedsWallet ==
    /\ \A b \in DOMAIN bets :
           /\ bets[b].userId \in Users
           /\ bets[b].complete
           /\ bets[b].walletAddress \in Addresses
           /\ bets[b].status = "pending"
           /\ \E r \in DOMAIN placeRequests :
                  /\ placeRequests[r].bet = b
                  /\ placeRequests[r].status = 200
                  /\ placeRequests[r].caller = bets[b].userId
                  /\ placeRequests[r].walletAddress = bets[b].walletAddress
    /\ \A r \in DOMAIN placeRequests :
           (\/ placeRequests[r].caller = Anonymous
            \/ ~placeRequests[r].complete
            \/ placeRequests[r].walletAddress = NoWallet) =>
               /\ placeRequests[r].status \in {400, 401}
               /\ placeRequests[r].bet = 0
    /\ Len(bets) = Cardinality({ r \in DOMAIN placeRequests :
                                    placeRequests[r].status = 200 })

\* A user connected a wallet, placed a bet, disconnected, and the next
\* place-bet request of that user was refused.
C29_Witness ==
    /\ Len(bets) = 1
    /\ Len(placeRequests) = 2
    /\ placeRequests[1].status = 200
    /\ placeRequests[2].caller = placeRequests[1].caller
    /\ placeRequests[2].complete
    /\ placeRequests[2].status = 400
    /\ wallet[placeRequests[1].caller] = NoWallet

\* C30: once every save request for the key has responded, the stored
\* messages are exactly the messages of the request that responded last.
C30_LastSaveWins ==
    (saves # <<>> /\ \A s \in DOMAIN saves : saves[s].pc = "done") =>
        OrderByTimestamp(chatMessages) = lastSaved

\* C18: while the real-time view is unmounted its EventSource is closed and
\* the update list, the price history and the connection status stay as they
\* are; a mount starts with a connecting EventSource, an empty update list
\* (no update id twice) and an empty price history.
C18_UnmountLeavesState ==
    /\ [](~rtMounted => eventSource \in {"none", "closed"})
    /\ [][(~rtMounted /\ ~rtMounted') =>
              UNCHANGED <<updates, priceHistoryRef, connectionStatus>>]_vars
    /\ [][(~rtMounted /\ rtMounted') =>
              /\ eventSource' = "connecting"
              /\ \A i, j \in DOMAIN updates' :
                     updates'[i].id = updates'[j].id => i = j
              /\ \A t \in RtTickers : ~IsDefined(priceHistoryRef'[t])]_vars

\* The view was unmounted after it had received updates over an open stream.
C18_Witness ==
    /\ ~rtMounted
    /\ eventSource = "closed"
    /\ connectionStatus = "connected"
    /\ Len(updates) = 2

\* ------------------------------------------------------------------
\* Claims on the order of the lists and on the main markets
\* ------------------------------------------------------------------

\* The orders a list can come in.
Orders(list) ==
    { [i \in DOMAIN list |-> list[p[i]]] :
        p \in { q \in [DOMAIN list -> DOMAIN list] :
                  \A i, j \in DOMAIN list : q[i] = q[j] => i = j } }

\* The records of a comparison, whatever their order.
Records(data) == { data[i] : i \in DOMAIN data }

\* C19: the compare page shows the same set of comparison records, with the
\* same probabilities per match, for every order of the Kalshi list and of
\* the Manifold list.
C19_ComparisonOrderFree ==
    (rendered /\ activePage = "compare") =>
        \A k \in Orders(kalshiMarkets), m \in Orders(manifoldMarkets) :
            Records(BuildCompareData(mockMatches, k, m)) = Records(compareData)

\* C20: every displayed group of the Kalshi column holds one to three
\* markets, each a main market and none twice, and a group without a main
\* market is not displayed.
C20_OnlyMainMarketsDisplayed ==
    (rendered /\ activePage = "kalshi") =>
        /\ \A g \in DOMAIN filteredGroups :
               LET ms == filteredGroups[g].markets IN
               /\ Len(ms) \in 1..3
               /\ \A i, j \in DOMAIN ms : ms[i] = ms[j] => i = j
               /\ \A i \in DOMAIN ms : IsMainMarket(ms[i])
        /\ \A g \in DOMAIN kalshiGroups :
               (\A i \in DOMAIN kalshiGroups[g].markets :
                    ~IsMainMarket(kalshiGroups[g].markets[i]))
                   => IndexOfKey(filteredGroups, kalshiGroups[g].key, 1) = 0

\* ------------------------------------------------------------------
\* Claims on team-name resolution
\* ------------------------------------------------------------------

\* C21: a non-empty name resolves to the entry of its exact key when it has
\* one, else to the entry of its case-insensitive exact key when it has one,
\* else to the first entry it contains or is contained in, and to the
\* default logo when no stage hits.
C21_StagedResolution ==
    (logoOut # <<>> /\ logoName # <<>>) =>
        IF TableExact(logoName) # <<>>
        THEN logoOut = TableExact(logoName)
        ELSE IF CaseInsensitiveMatch(logoName) # <<>>
        THEN logoOut = CaseInsensitiveMatch(logoName)
        ELSE IF PartialMatch(logoName) # <<>>
        THEN logoOut = PartialMatch(logoName)
        ELSE logoOut = <<DefaultLogo>>

====
